---- MODULE Spec2Model ----
(***************************************************************************)
(* Verification model of Harmonize (Krispeckt/Harmonize).                  *)
(*                                                                         *)
(*   Part I   LFUCache over its doubly linked frequency buckets            *)
(*            (harmonize/connection/cache).                                *)
(*   Part II  Transport / Node connection state machine                    *)
(*            (harmonize/connection/transport.py, node.py).                *)
(*   Part III Player voice handshake and Node.update_player                *)
(*            (harmonize/player.py, connection/node.py).                   *)
(*   Part IV  Pool of nodes (harmonize/connection/pool.py).                *)
(*   Part V   Track.from_encode over DataReader                            *)
(*            (harmonize/objects/track.py, harmonize/utils).               *)
(*   Part VI  Queue (harmonize/queue.py).                                  *)
(***************************************************************************)
EXTENDS Integers, Sequences, FiniteSets, TLC

(***************************************************************************)
(* Bounds of the model.                                                    *)
(***************************************************************************)
NumKeys == 3
MaxCapacity == 2
MaxFreq == 3
MaxTasks == 2
MaxWs == 1
MaxRetries == 2
MaxAttempts == 12
NumGuilds == 2
NumPlayers == 1
NumNodes == 2
MaxSupplied == 2
MaxVersion == 4
NumTracks == 2
MaxQueue == 2
MaxPlaylist == 2
MaxHistory == 2
MaxListened == 3
NumLists == 2

KeyNames == <<"A", "B", "C", "D", "E", "F">>
Keys == {KeyNames[i] : i \in 1..NumKeys}
Capacities == (0 - 1)..MaxCapacity
Freqs == 1..MaxFreq

None == "None"
MISSING == "MISSING"
Values == {None, "v1"}
Defaults == {MISSING, None}
Mixed == {"(mixed)"}

VARIABLES
    \* ---- LFUCache ----
    capacity,      \* LFUCache._capacity
    cache,         \* LFUCache._cache : key -> DataNode
    freq_map,      \* keys of LFUCache._freq_map (the DLLs created so far)
    later,         \* DLLNode.later of every list node
    previous,      \* DLLNode.previous of every list node
    min_freq,      \* LFUCache._min
    used,          \* LFUCache._used
    lastOp,        \* the call made last: [op, key, arg]
    result,        \* its outcome: [kind |-> "return" | "raise", val]
    \* ---- history of the calls, kept beside the cache ----
    order,         \* stored keys, oldest entry into the current count class first
    freshPuts,     \* the keys put, while every call so far was a put of a new
                   \* key; Mixed after any other call
    lastPut,       \* stored key -> value most recently put
    \* ---- Node ----
    status,        \* Node._status
    session_id,    \* Node._session_id
    node_transport,\* Node._transport: the Transport, or None after close()
    players,       \* Node.players (guild ids)
    \* ---- Transport ----
    websocket,     \* Transport._websocket: NoWs, or the id of a websocket
    wsClosed,      \* the websockets whose .closed is true
    session,       \* Transport._session: "open" or "closed"
    retries_limit, \* Transport._retries
    nws,           \* websockets opened so far
    \* ---- event loop ----
    tasks,         \* task slot -> the coroutine's position and locals
    emitted,       \* events dispatched by the last step, in order
    sent,          \* request/response exchanges started by the last step
    calls,         \* the sites that called Transport.connect in the last step
    closes,        \* the calls of Transport.close made in the last step
    invoked,       \* player coroutines invoked by the last step
    lastMessage,   \* the websocket message the last step received
    reqResult,     \* the outcome of the request() made by the last step
    \* ---- history ----
    readySince,    \* a 'ready' was handled since the last connect() start / close()
    returned,      \* the connect() invocations that returned in the last step
                   \* after one attempt or more, all failed transiently
    ended,         \* how the coroutines of the tasks that ended in the last
                   \* step ended, and whether a handshake of theirs was rejected
    closedLocally, \* a close() asked for by Node.close() while a task was
                   \* listening has completed
    \* ---- Player, one per guild ----
    connected,        \* Player._connected
    voice_state,      \* Player._voice_state: the session id, and whether
                      \* endpoint and token are in
    connection_event, \* Player._connection_event is set
    voice_channel,    \* the guild's voice state points at a channel
    connecting,       \* "waiting" while connect() waits at line 750
    lastConnect,      \* how the player's last connect() ended
    \* ---- Pool ----
    nodes,            \* Pool.__nodes: the identifiers of the loaded nodes
    pool,             \* identifier -> the node: status, alive (its websocket
                      \* is open), closed (Transport.close ran), loop (where
                      \* its connect task is), retries, closing (a task
                      \* running Transport.close is pending)
    closedAll,        \* Pool.close_all was called
    \* ---- a call of Node.update_player ----
    args,             \* the arguments the call is made with
    \* ---- a call of Track.from_encode ----
    track,            \* the bytes of the encoded track it is given
    decoding,         \* what the call did
    \* ---- Queue ----
    loop,             \* Queue._loop
    history,          \* Queue._history, newest first
    listened_count,   \* Queue._listened_count
    now,              \* Queue._now: tracks and playlist entries
    current,          \* Queue._current: a track, NoTrack for None, or the
                      \* MISSING sentinel
    loaded            \* the last call of load_next: its argument and outcome

cacheVars == <<capacity, cache, freq_map, later, previous, min_freq, used,
               lastOp, result, order, freshPuts, lastPut>>

nodeVars == <<status, session_id, node_transport, players, websocket,
              wsClosed, session, retries_limit, nws, tasks, emitted,
              sent, calls, closes, invoked, lastMessage, reqResult,
              readySince, returned, ended, closedLocally>>

playerVars == <<connected, voice_state, connection_event, voice_channel,
                connecting, lastConnect>>

\* What the steps of one part leave alone
poolVars == <<nodes, pool, closedAll>>
callVars == <<args, track, decoding>>
queueVars == <<loop, history, listened_count, now, current, loaded>>
otherVars == <<callVars, queueVars>>

offCache == <<nodeVars, playerVars, poolVars, otherVars>>
offNode == <<cacheVars, playerVars, poolVars, otherVars>>
offPlayer == <<cacheVars, poolVars, otherVars>>
offPool == <<cacheVars, nodeVars, playerVars, otherVars>>
offDecode == <<cacheVars, nodeVars, playerVars, poolVars, queueVars>>
offQueue == <<cacheVars, nodeVars, playerVars, poolVars, callVars>>

vars == <<cacheVars, nodeVars, playerVars, poolVars, otherVars>>

(***************************************************************************)
(* List nodes.  A bucket's sentinels are head/tail of its DLL; the node of *)
(* a key is the DLLNode(key) created when the key is inserted.             *)
(***************************************************************************)
HeadOf(f) == <<"head", f>>
TailOf(f) == <<"tail", f>>
NodeOf(k) == <<"node", k>>
DLLNodes == {HeadOf(f) : f \in Freqs} \cup {TailOf(f) : f \in Freqs}
              \cup {NodeOf(k) : k \in Keys}

\* DLLNode.value
NodeValue(n) == IF n[1] = "node" THEN n[2] ELSE None

\* A heap is the record [dlls, later, previous] of the list structure.
Heap == [dlls |-> freq_map, later |-> later, previous |-> previous]

\* defaultdict(DLL).__missing__ with DLL.__init__: the bucket is created,
\* its sentinels linked to each other, on first access.
DLLGet(h, f) ==
    IF f \in h.dlls THEN h
    ELSE [dlls     |-> h.dlls \cup {f},
          later    |-> [h.later EXCEPT ![HeadOf(f)] = TailOf(f)],
          previous |-> [h.previous EXCEPT ![TailOf(f)] = HeadOf(f)]]

\* DLL.append, the mutant: the node is spliced in after the head sentinel.
DLLappendAtHead(h, f, node) ==
    LET head_later == h.later[HeadOf(f)]
        head == HeadOf(f)
    IN  [h EXCEPT !.later = [h.later EXCEPT ![head] = node, ![node] = head_later],
                  !.previous = [h.previous EXCEPT ![head_later] = node, ![node] = head]]

\* DLL.append: splice node between tail.previous and the tail sentinel.
DLLappend(h, f, node) ==
    LET tail_prev == h.previous[TailOf(f)]
        tail == TailOf(f)
    IN  [h EXCEPT !.later = [h.later EXCEPT ![tail_prev] = node, ![node] = tail],
                  !.previous = [h.previous EXCEPT ![tail] = node, ![node] = tail_prev]]

\* DLL.remove, the mutant: the neighbours are not linked to each other.
DLLremoveKeepsNeighbours(h, node) ==
    IF node = None THEN [h |-> h, exc |-> None]
    ELSE IF h.previous[node] = None \/ h.later[node] = None
         THEN [h |-> h, exc |-> "AssertionError"]
         ELSE [h |-> [h EXCEPT !.later = [h.later EXCEPT ![node] = None],
                               !.previous = [h.previous EXCEPT ![node] = None]],
               exc |-> None]

\* DLL.remove: [h, exc]; the assert fails when a neighbour is missing.
DLLremove(h, node) ==
    IF node = None THEN [h |-> h, exc |-> None]
    ELSE LET node_prev == h.previous[node]
             node_later == h.later[node]
         IN  IF node_prev = None \/ node_later = None
             THEN [h |-> h, exc |-> "AssertionError"]
             ELSE [h |-> [h EXCEPT
                            !.later = [h.later EXCEPT ![node_prev] = node_later,
                                                      ![node] = None],
                            !.previous = [h.previous EXCEPT ![node_later] = node_prev,
                                                            ![node] = None]],
                   exc |-> None]

\* DLL.popleft: [h, node, exc]; the node after the head sentinel is removed.
DLLpopleft(h, f) ==
    LET node == h.later[HeadOf(f)]
    IN  IF node = None THEN [h |-> h, node |-> None, exc |-> None]
        ELSE LET r == DLLremove(h, node)
             IN  [h |-> r.h, node |-> IF r.exc = None THEN node ELSE None,
                  exc |-> r.exc]

\* DLL.__bool__
DLLbool(h, f) == h.later[HeadOf(f)] # TailOf(f)

(***************************************************************************)
(* LFUCache                                                                *)
(***************************************************************************)
\* DataNode(key, value, frequency, node)
DataNode(k, v, f, n) == [key |-> k, value |-> v, frequency |-> f, node |-> n]

\* dict.pop(key)
DictPop(d, k) == [x \in (DOMAIN d) \ {k} |-> d[x]]
\* dict[key] = value
DictSet(d, k, v) == [x \in (DOMAIN d) \cup {k} |-> IF x = k THEN v ELSE d[x]]

\* The history order after key k enters a count class (insert or bump).
Without(s, k) == SelectSeq(s, LAMBDA x : x # k)
Enter(s, k) == Append(Without(s, k), k)

\* line 46 of get, the mutant: the minimum is never advanced.
MinAfterGetStale(m, f, h) == m

\* line 46 of get: self._min += self._min == data.frequency and not bucket
MinAfterGet(m, f, h) ==
    IF m = f /\ ~DLLbool(h, f) THEN m + 1 ELSE m

\* lines 41-48 of get on a stored key: [cache, h, min, value, exc]
GetHit(c, h0, m, key) ==
    LET data == c[key]
        h1 == DLLGet(h0, data.frequency)
        r  == DLLremove(h1, data.node)
        h2 == DLLGet(r.h, data.frequency + 1)
        h3 == DLLappend(h2, data.frequency + 1, data.node)
    IN  IF r.exc # None
        THEN [cache |-> c, h |-> r.h, min |-> m, value |-> None, exc |-> r.exc]
        ELSE [cache |-> DictSet(c, key, DataNode(key, data.value,
                                                 data.frequency + 1, data.node)),
              h     |-> h3,
              min   |-> MinAfterGet(m, data.frequency, DLLGet(h3, data.frequency)),
              value |-> data.value,
              exc   |-> None]

\* line 39 of get, the name NotFound is bound nowhere in lfu.py.
GetMiss(default) ==
    IF default # MISSING
    THEN [kind |-> "return", val |-> default]
    ELSE [kind |-> "raise", val |-> "NameError"]

\* LFUCache.get(key, default)
Get(key, default) ==
    /\ key \in DOMAIN cache => cache[key].frequency < MaxFreq
    /\ lastOp' = [op |-> "get", key |-> key, arg |-> default]
    /\ freshPuts' = Mixed
    /\ UNCHANGED <<capacity, used, lastPut>>
    /\ IF key \notin DOMAIN cache
       THEN /\ result' = GetMiss(default)
            /\ UNCHANGED <<cache, freq_map, later, previous, min_freq, order>>
       ELSE LET g == GetHit(cache, Heap, min_freq, key)
            IN  /\ cache' = g.cache
                /\ freq_map' = g.h.dlls
                /\ later' = g.h.later
                /\ previous' = g.h.previous
                /\ min_freq' = g.min
                /\ result' = IF g.exc = None
                             THEN [kind |-> "return", val |-> g.value]
                             ELSE [kind |-> "raise", val |-> g.exc]
                /\ order' = IF g.exc = None THEN Enter(order, key) ELSE order

\* line 51 of put, the mutant: only a negative capacity is refused.
BadCapacityNegativeOnly(cap) == cap < 0

\* line 51 of put
BadCapacity(cap) == cap <= 0

\* line 59 of put, the mutant: the cache is allowed one entry too many.
AtCapacityOffByOne(u, cap) == u = cap + 1

\* line 59 of put
AtCapacity(u, cap) == u = cap

\* line 72 of put
MinAfterInsert(m) == 1

\* lines 59-65 of put: [cache, h, used, evicted, exc]
Evict(c, h0, m, u, cap) ==
    IF ~AtCapacity(u, cap)
    THEN [cache |-> c, h |-> h0, used |-> u, evicted |-> None, exc |-> None]
    ELSE LET h1 == DLLGet(h0, m)
             p  == DLLpopleft(h1, m)
         IN  IF p.exc # None
             THEN [cache |-> c, h |-> p.h, used |-> u, evicted |-> None,
                   exc |-> p.exc]
             ELSE IF p.node # None
             THEN [cache |-> DictPop(c, NodeValue(p.node)), h |-> p.h,
                   used |-> u - 1, evicted |-> NodeValue(p.node), exc |-> None]
             ELSE [cache |-> c, h |-> p.h, used |-> u, evicted |-> None,
                   exc |-> None]

\* lines 67-72 of put, the mutant: the new key is not counted.
InsertUncounted(c, h0, u, m, key, value) ==
    LET data == DataNode(key, value, 1, NodeOf(key))
        h1 == DLLGet(h0, data.frequency)
        h2 == DLLappend(h1, data.frequency, data.node)
    IN  [cache |-> DictSet(c, key, data), h |-> h2, used |-> u,
         min |-> MinAfterInsert(m)]

\* lines 67-72 of put: [cache, h, used, min]
Insert(c, h0, u, m, key, value) ==
    LET data == DataNode(key, value, 1, NodeOf(key))
        h1 == DLLGet(h0, data.frequency)
        h2 == DLLappend(h1, data.frequency, data.node)
    IN  [cache |-> DictSet(c, key, data), h |-> h2, used |-> u + 1,
         min |-> MinAfterInsert(m)]

\* lines 54-57 of put, the mutant: the value is overwritten without a bump.
PutHitNoBump(c, h0, m, key, value) ==
    [cache |-> [c EXCEPT ![key].value = value], h |-> h0, min |-> m,
     value |-> value, exc |-> None]

\* lines 54-57 of put: overwrite the value, then self.get(key)
PutHit(c, h0, m, key, value) ==
    GetHit([c EXCEPT ![key].value = value], h0, m, key)

\* LFUCache.put(key, value)
Put(key, value) ==
    /\ key \in DOMAIN cache => cache[key].frequency < MaxFreq
    /\ lastOp' = [op |-> "put", key |-> key, arg |-> value]
    /\ UNCHANGED capacity
    /\ IF BadCapacity(capacity)
       THEN /\ result' = [kind |-> "raise", val |-> "ValueError"]
            /\ UNCHANGED <<cache, freq_map, later, previous, min_freq, used,
                           order, freshPuts, lastPut>>
       ELSE /\ freshPuts' = IF freshPuts # Mixed /\ key \notin freshPuts
                            THEN freshPuts \cup {key} ELSE Mixed
            /\ IF key \in DOMAIN cache
               THEN LET g == PutHit(cache, Heap, min_freq, key, value)
                    IN  /\ cache' = g.cache
                        /\ freq_map' = g.h.dlls
                        /\ later' = g.h.later
                        /\ previous' = g.h.previous
                        /\ min_freq' = g.min
                        /\ used' = used
                        /\ result' = IF g.exc = None
                                     THEN [kind |-> "return", val |-> None]
                                     ELSE [kind |-> "raise", val |-> g.exc]
                        /\ order' = IF g.exc = None THEN Enter(order, key)
                                    ELSE order
                        /\ lastPut' = DictSet(lastPut, key, value)
               ELSE LET e == Evict(cache, Heap, min_freq, used, capacity)
                        i == Insert(e.cache, e.h, e.used, min_freq, key, value)
                    IN  IF e.exc # None
                        THEN /\ result' = [kind |-> "raise", val |-> e.exc]
                             /\ freq_map' = e.h.dlls
                             /\ later' = e.h.later
                             /\ previous' = e.h.previous
                             /\ UNCHANGED <<cache, min_freq, used, order, lastPut>>
                        ELSE /\ cache' = i.cache
                             /\ freq_map' = i.h.dlls
                             /\ later' = i.h.later
                             /\ previous' = i.h.previous
                             /\ used' = i.used
                             /\ min_freq' = i.min
                             /\ result' = [kind |-> "return", val |-> None]
                             /\ order' = Enter(Without(order, e.evicted), key)
                             /\ lastPut' = DictSet(DictPop(lastPut, e.evicted),
                                                   key, value)

\* LFUCache.__init__
CacheNew(caps) ==
    /\ capacity \in caps
    /\ cache = <<>>
    /\ freq_map = {}
    /\ later = [n \in DLLNodes |-> None]
    /\ previous = [n \in DLLNodes |-> None]
    /\ min_freq = 1
    /\ used = 0
    /\ lastOp = [op |-> "init", key |-> None, arg |-> None]
    /\ result = [kind |-> "return", val |-> None]
    /\ order = <<>>
    /\ freshPuts = {}
    /\ lastPut = <<>>

\* The default is read on a miss only: hits are called without one.
CacheGet ==
    \E k \in Keys, d \in Defaults :
        /\ k \in DOMAIN cache => d = MISSING
        /\ Get(k, d)
CachePut == \E k \in Keys, v \in Values : Put(k, v)

(***************************************************************************)
(* DLLs on their own: NumLists lists, their nodes appended, removed and    *)
(* popped by a caller; order is the nodes that are in a list, in the order *)
(* they were appended.                                                     *)
(***************************************************************************)
Lists == 1..NumLists

\* DLL.__init__ (dll.py 11-15), for each list
DllNew ==
    /\ freq_map = Lists
    /\ later = [n \in DLLNodes |->
                   IF n[1] = "head" /\ n[2] \in Lists THEN TailOf(n[2]) ELSE None]
    /\ previous = [n \in DLLNodes |->
                      IF n[1] = "tail" /\ n[2] \in Lists THEN HeadOf(n[2]) ELSE None]
    /\ order = <<>>
    /\ lastOp = [op |-> "init", key |-> None, arg |-> 0]
    /\ result = [kind |-> "return", val |-> None]
    /\ capacity = MaxCapacity /\ cache = <<>> /\ min_freq = 1 /\ used = 0
    /\ freshPuts = {} /\ lastPut = <<>>

\* What the calls on the lists leave alone
offDll == <<capacity, cache, min_freq, used, freshPuts, lastPut, offCache>>

\* dll.append(DLLNode(k)) of a node that is in no list
DllAppend(f, k) ==
    LET h == DLLappend(Heap, f, NodeOf(k))
    IN  /\ previous[NodeOf(k)] = None
        /\ freq_map' = h.dlls /\ later' = h.later /\ previous' = h.previous
        /\ order' = Append(order, k)
        /\ lastOp' = [op |-> "append", key |-> k, arg |-> f]
        /\ result' = [kind |-> "return", val |-> None]
        /\ UNCHANGED offDll

\* dll.remove(node) of the node of k
DllRemove(k) ==
    LET r == DLLremove(Heap, NodeOf(k))
    IN  /\ freq_map' = r.h.dlls /\ later' = r.h.later
        /\ previous' = r.h.previous
        /\ order' = IF r.exc = None THEN Without(order, k) ELSE order
        /\ lastOp' = [op |-> "remove", key |-> k, arg |-> 0]
        /\ result' = IF r.exc = None THEN [kind |-> "return", val |-> None]
                     ELSE [kind |-> "raise", val |-> r.exc]
        /\ UNCHANGED offDll

\* dll.popleft(): the node returned is given by its value
DllPopleft(f) ==
    LET r == DLLpopleft(Heap, f)
        value == IF r.node = None THEN None ELSE NodeValue(r.node)
    IN  /\ freq_map' = r.h.dlls /\ later' = r.h.later
        /\ previous' = r.h.previous
        /\ order' = IF r.exc = None THEN Without(order, value) ELSE order
        /\ lastOp' = [op |-> "popleft", key |-> None, arg |-> f]
        /\ result' = IF r.exc = None THEN [kind |-> "return", val |-> value]
                     ELSE [kind |-> "raise", val |-> r.exc]
        /\ UNCHANGED offDll

(***************************************************************************)
(* Part II.  Node and Transport.                                           *)
(*                                                                         *)
(* Every coroutine runs as a task of the event loop; a step of the model   *)
(* is what one task does between two suspensions (ws_connect, sleep, the   *)
(* websocket's receive, an HTTP request, the close of an open websocket or *)
(* session).  The operators below take and return [g, t]: g the state of   *)
(* the node and its transport, t the task's position and locals.           *)
(***************************************************************************)
NoWs == 0
NoMessage == [type |-> "NONE"]
NoOutcome == [kind |-> "none"]
NoFrame == [at |-> "task", close_code |-> None]
SessionIds == {"s1", "s2"}
Slots == 1..MaxTasks
RetriesChoices == 1..MaxRetries

\* The task's locals: retries of _connect_back and the delay it sleeps; ws,
\* the websocket _listen iterates; stack, the _listen frames suspended in a
\* call of connect(), each with its close_code.  A local is kept while the
\* code can still read it.  History: attempts, sleeps, transientOnly of the
\* running connect(); rejected, the task met a 401 or 404; local, the task
\* was created by Node.close() while a task was listening.
IdleTask ==
    [pc |-> "idle", retries |-> 0, delay |-> 0, ws |-> NoWs, stack |-> <<>>,
     attempts |-> 0, sleeps |-> 0, transientOnly |-> TRUE, rejected |-> FALSE,
     local |-> FALSE]

G == [status |-> status, session_id |-> session_id,
      node_transport |-> node_transport, players |-> players,
      websocket |-> websocket, wsClosed |-> wsClosed,
      session |-> session, nws |-> nws, emitted |-> <<>>,
      sent |-> <<>>, calls |-> <<>>, closes |-> <<>>, invoked |-> <<>>,
      lastMessage |-> NoMessage, reqResult |-> NoOutcome,
      readySince |-> readySince, returned |-> <<>>,
      ended |-> <<>>, closedLocally |-> closedLocally]

\* Transport.is_alive
IsAlive(g) == g.websocket # NoWs /\ g.websocket \notin g.wsClosed

\* Transport.dispatch
Dispatch(g, name) == [g EXCEPT !.emitted = Append(@, name)]

\* line 115, the mutant: the delay is not capped.
DelayUncapped(retries) == 3 * retries

\* line 115
Delay(retries) == IF 3 * retries < 30 THEN 3 * retries ELSE 30

RECURSIVE CallConnect(_, _, _)
RECURSIVE ReturnFromConnect(_, _, _)

\* connect() returns to its caller (also after it caught an exception,
\* lines 125-126).  The caller is the task itself, or a _listen frame: at
\* line 221 it breaks and goes on to line 225; at line 225 the try is left,
\* _listen returns, _connect_back breaks (line 104) and connect() returns.
ReturnFromConnect(g, t, waiting) ==
    LET g1 == IF t.attempts >= 1 /\ t.transientOnly
              THEN [g EXCEPT !.returned =
                       Append(@, [attempts |-> t.attempts, sleeps |-> t.sleeps,
                                  status |-> g.status])]
              ELSE g
    IN  IF t.stack = <<>>
        THEN [g |-> [g1 EXCEPT !.ended =
                        Append(@, [rejected |-> t.rejected, kind |-> "return",
                                   val |-> None])],
              t |-> IdleTask]
        ELSE LET frame == Head(t.stack)
                 t1 == [t EXCEPT !.stack = Tail(t.stack), !.attempts = 0,
                                 !.sleeps = 0, !.transientOnly = FALSE]
             IN  IF frame.at = "line221"
                 THEN CallConnect(g1,
                         [t1 EXCEPT !.stack =
                             <<[at |-> "line225",
                                close_code |-> frame.close_code]>> \o @],
                         waiting)
                 ELSE ReturnFromConnect(g1, t1, waiting)

\* line 72: while not self.is_alive
LoopTest(g, t, waiting) ==
    IF IsAlive(g) THEN ReturnFromConnect(g, t, waiting)
    ELSE [g |-> g, t |-> [t EXCEPT !.pc = "handshake", !.delay = 0]]

\* Transport.connect, lines 121-124, and _connect_back line 71
CallConnect(g, t, waiting) ==
    LoopTest([g EXCEPT !.status = "CONNECTING", !.readySince = FALSE,
                       !.calls = Append(@, IF t.stack = <<>> THEN NoFrame.at
                                           ELSE Head(t.stack).at)],
             [t EXCEPT !.retries = 1, !.attempts = 0, !.sleeps = 0,
                       !.transientOnly = TRUE],
             waiting)

\* The websocket's receive: a second task that starts to wait on a
\* websocket another task is waiting on gets a RuntimeError, which leaves
\* _listen and _connect_back and is caught by connect().
AwaitMessage(g, t, waiting) ==
    IF t.ws \in waiting THEN ReturnFromConnect(g, t, waiting)
    ELSE [g |-> g, t |-> [t EXCEPT !.pc = "listen"]]

\* _listen, lines 204-206
StartListen(g, t, waiting) ==
    AwaitMessage(g, [t EXCEPT !.ws = g.websocket, !.retries = 0], waiting)

\* Transport.close, lines 248-253, the mutant: the session id is kept.
FinishCloseKeepsSession(g, t, waiting) ==
    ReturnFromConnect([g EXCEPT !.status = "DISCONNECTED",
                                !.node_transport = None,
                                !.players = {},
                                !.readySince = FALSE,
                                !.closedLocally = @ \/ t.local,
                                !.closes = Append(@,
                                    [event |-> "done",
                                     again |-> g.node_transport = None])],
                      t, waiting)

\* Transport.close, lines 248-253, the mutant: the status is left as it was.
FinishCloseKeepsStatus(g, t, waiting) ==
    ReturnFromConnect([g EXCEPT !.session_id = None,
                                !.node_transport = None,
                                !.players = {},
                                !.readySince = FALSE,
                                !.closedLocally = @ \/ t.local,
                                !.closes = Append(@,
                                    [event |-> "done",
                                     again |-> g.node_transport = None])],
                      t, waiting)

\* Transport.close, lines 248-253, then back to the caller (the raise of
\* lines 82/85 is caught by connect(); the break of line 113 leaves the loop)
FinishClose(g, t, waiting) ==
    ReturnFromConnect([g EXCEPT !.status = "DISCONNECTED",
                                !.session_id = None,
                                !.node_transport = None,
                                !.players = {},
                                !.readySince = FALSE,
                                !.closedLocally = @ \/ t.local,
                                !.closes = Append(@,
                                    [event |-> "done",
                                     again |-> g.node_transport = None])],
                      t, waiting)

\* Transport.close, line 247: closing a session that is closed returns at once
SessionClose(g, t, waiting) ==
    IF g.session = "closed" THEN FinishClose(g, t, waiting)
    ELSE [g |-> [g EXCEPT !.session = "closed"],
          t |-> [t EXCEPT !.pc = "closing_session"]]

\* Transport.close, lines 237-245, always called with the default code OK:
\* lines 81, 84, 112 and Node.close pass none, and line 231 is never reached
\* because connect() catches every exception (lines 125-126).  Closing a
\* websocket that is closed returns at once.
CallClose(g, t, waiting) ==
    LET g1 == [g EXCEPT !.closes =
                   Append(@, [event |-> "call", code |-> "OK",
                              from |-> IF t.stack = <<>> THEN NoFrame
                                       ELSE Head(t.stack)])]
    IN  IF IsAlive(g)
        THEN [g |-> [g1 EXCEPT !.wsClosed = @ \cup {g.websocket}],
              t |-> [t EXCEPT !.pc = "closing_ws"]]
        ELSE SessionClose(g1, t, waiting)

\* lines 95-119, the mutant: the node is marked connected at open.
AfterAttemptMarksConnected(g, t, waiting) ==
    IF IsAlive(g)
    THEN StartListen(Dispatch([g EXCEPT !.status = "CONNECTED"], "node_ready"),
                     t, waiting)
    ELSE IF retries_limit <= t.retries THEN CallClose(g, t, waiting)
    ELSE [g |-> g,
          t |-> [t EXCEPT !.pc = "sleep", !.delay = Delay(t.retries),
                          !.retries = @ + 1, !.sleeps = @ + 1]]

\* _connect_back after the try, lines 95-119
AfterAttempt(g, t, waiting) ==
    IF IsAlive(g)
    THEN StartListen(Dispatch(g, "node_ready"), t, waiting)
    ELSE IF retries_limit <= t.retries THEN CallClose(g, t, waiting)
    ELSE [g |-> g,
          t |-> [t EXCEPT !.pc = "sleep", !.delay = Delay(t.retries),
                          !.retries = @ + 1, !.sleeps = @ + 1]]

\* _connect_back, lines 73-93: the outcome of ws_connect
HandshakeOutcomes == {"open", "401", "404", "refused", "error"}
Attempt(g, t, waiting, outcome) ==
    LET t1 == [t EXCEPT !.attempts = @ + 1,
                        !.transientOnly = @ /\ outcome \in {"refused", "error"},
                        !.rejected = @ \/ outcome \in {"401", "404"}]
    IN  CASE outcome = "open" ->
                 AfterAttempt([g EXCEPT !.websocket = g.nws + 1,
                                        !.nws = g.nws + 1], t1, waiting)
          [] outcome \in {"401", "404"} -> CallClose(g, t1, waiting)
          [] OTHER -> AfterAttempt(g, t1, waiting)

\* The responses to a request: an HTTP status, or none when the exchange
\* itself fails.
StatusCodes == {200, 204, 401, 403, 404}
NoResponse == 0
Responses == StatusCodes \cup {NoResponse}

Raise(name) == [kind |-> "raise", val |-> name]
Return(val) == [kind |-> "return", val |-> val]

\* Transport.request, lines 272-292: what the caller gets for a response.
\* The AuthenticationError of line 280 is raised inside the try and leaves
\* it as ClientError (lines 291-292); after line 290 the function ends, so
\* any other status returns None.
Respond(code) ==
    IF code = NoResponse THEN Raise("ClientError")
    ELSE IF code \in {401, 403} THEN Raise("ClientError")
    ELSE IF code = 200 THEN Return("body")
    ELSE IF code = 204 THEN Return("True")
    ELSE Return(None)

\* Transport.request, lines 263-264, reached through Node.update_session
\* and Node.request (node.py line 767): the errors raised before the
\* exchange.  Without a transport the node has nothing to call, and without
\* a websocket line 263 reads .closed of None.
RequestRefused(g, through) ==
    IF through = "Node" /\ g.node_transport = None THEN "AttributeError"
    ELSE IF g.websocket = NoWs THEN "AttributeError"
    ELSE IF g.websocket \in g.wsClosed THEN "IOError"
    ELSE None

\* Transport.request, lines 255-292; a closed session raises in line 273,
\* which leaves the try as ClientError.
RequestOutcome(g, through, code) ==
    IF RequestRefused(g, through) # None
    THEN Raise(RequestRefused(g, through))
    ELSE IF g.session = "closed" THEN Raise("ClientError")
    ELSE Respond(code)

Exchanged(g, through) ==
    RequestRefused(g, through) = None /\ g.session = "open"

\* The text messages of the websocket.  "invalid" is a text that is not
\* JSON, "absent" a document without 'op'; whole stands for a stats document
\* holding the keys Stats reads; current for the player's queue.current
\* being set; reason is the event's 'reason' (Lavalink sends one with
\* TrackEndEvent, none with TrackStuckEvent): "finished" stands for the
\* reasons of player.py line 178 (finished, loadFailed), "stopped" for the
\* other members of EndReason (stopped, replaced, cleanup), "unknown" for a
\* string that is none of them, NoReason for an event without the key;
\* severity stands for the exception's severity being one of Severity.
Guilds == 1..NumGuilds
NoReason == "none"
EndReasons == {"finished", "stopped"}
EventTypes == {"TrackStartEvent", "TrackEndEvent", "TrackExceptionEvent",
               "TrackStuckEvent", "WebSocketClosedEvent", "OtherEvent"}
Messages ==
    [op : {"ready"}, sessionId : SessionIds, resumed : BOOLEAN]
    \cup [op : {"stats"}, whole : BOOLEAN]
    \cup [op : {"unknown", "absent", "invalid"}]
    \cup [op : {"playerUpdate"}, guildId : Guilds]
    \cup {m \in [op : {"event"}, guildId : Guilds, type : EventTypes,
                  current : BOOLEAN, severity : BOOLEAN,
                  reason : EndReasons \cup {NoReason, "unknown"}] :
              /\ m.type \in {"TrackExceptionEvent", "TrackStuckEvent"}
                 \/ m.current
              /\ (m.type = "TrackExceptionEvent" /\ m.current) \/ m.severity
              /\ m.type \in {"TrackEndEvent", "TrackStuckEvent"}
                 \/ m.reason = "finished"
              /\ m.type = "TrackStuckEvent"
                    => m.reason \in {NoReason, "finished"}}

EventName(type) ==
    CASE type = "TrackStartEvent" -> "track_start"
      [] type = "TrackEndEvent" -> "track_end"
      [] type = "TrackExceptionEvent" -> "track_exception"
      [] type = "TrackStuckEvent" -> "track_stuck"
      [] type = "WebSocketClosedEvent" -> "discord_ws_closed"
      [] OTHER -> "extra_event"

\* _handle_event, lines 128-179, the mutant: an event without a player is
\* notified as an extra event.
HandleEventNotifiesWithoutPlayer(g, t, waiting, data) ==
    IF data.guildId \notin g.players
    THEN AwaitMessage(Dispatch(g, "extra_event"), t, waiting)
    ELSE AwaitMessage(Dispatch(g, EventName(data.type)), t, waiting)

\* A player coroutine is invoked, after the notifications of the step so
\* far, and raises or not.
Invoked(g, name, raised) ==
    [g EXCEPT !.invoked = Append(@, [name |-> name, after |-> Len(g.emitted),
                                     raised |-> raised])]
Invoke(g, name) == Invoked(g, name, FALSE)

\* What _handle_event gives to the handler (line 177): the EndReason of the
\* event's reason, not the event
Handed(data) == [dict |-> FALSE, type |-> "EndReason", reason |-> data.reason]

\* Player.handle_event, player.py 160-181: line 176 subscripts what it is
\* given, which raises TypeError for an EndReason; for an event it calls
\* play() on TrackStuckEvent and on TrackEndEvent with the reasons of line
\* 178.
PlayerHandleEvent(g, given) ==
    IF ~given.dict THEN Invoked(g, "handle_event", TRUE)
    ELSE IF \/ given.type = "TrackStuckEvent"
            \/ given.type = "TrackEndEvent" /\ given.reason = "finished"
    THEN Invoke(Invoke(g, "handle_event"), "play")
    ELSE Invoke(g, "handle_event")

\* _handle_event, lines 172-179, the mutant: what the handler raises is not
\* caught.
DeliverPropagates(g, t, waiting, data) ==
    IF data.type \notin {"TrackStuckEvent", "TrackEndEvent"}
    THEN AwaitMessage(g, t, waiting)
    ELSE IF data.reason \notin EndReasons THEN AwaitMessage(g, t, waiting)
    ELSE ReturnFromConnect(PlayerHandleEvent(g, Handed(data)), t, waiting)

\* _handle_event, lines 172-179: the event goes to the player's handler.
\* EndReason(data['reason']) is evaluated inside the try: without a reason
\* the KeyError, with an unknown one the ValueError is caught and the
\* handler is not called; what the handler raises is caught as well.
Deliver(g, t, waiting, data) ==
    IF data.type \notin {"TrackStuckEvent", "TrackEndEvent"}
    THEN AwaitMessage(g, t, waiting)
    ELSE IF data.reason \notin EndReasons THEN AwaitMessage(g, t, waiting)
    ELSE AwaitMessage(PlayerHandleEvent(g, Handed(data)), t, waiting)

\* _handle_event, lines 128-170.  Without a player the event is dropped.
\* Line 145 makes an EndReason of the reason of a TrackEndEvent, line 161 a
\* Severity of the exception's, and the asserts of lines 154 and 165 need
\* queue.current: these raise out of _listen.
HandleEvent(g, t, waiting, data) ==
    IF data.guildId \notin g.players THEN AwaitMessage(g, t, waiting)
    ELSE IF \/ data.type \in {"TrackExceptionEvent", "TrackStuckEvent"}
               /\ ~data.current
            \/ data.type = "TrackExceptionEvent" /\ ~data.severity
            \/ data.type = "TrackEndEvent" /\ data.reason \notin EndReasons
    THEN ReturnFromConnect(g, t, waiting)
    ELSE Deliver(Dispatch(g, EventName(data.type)), t, waiting, data)

\* _handle_message, lines 181-201, the mutant: node_ready is notified
\* before the session update.
HandleMessageNotifiesEarly(g, t, waiting, data) ==
    CASE data.op = "ready" ->
             LET g1 == Dispatch([g EXCEPT !.status = "CONNECTED",
                                          !.session_id = data.sessionId,
                                          !.readySince = TRUE], "node_ready")
             IN  IF ~Exchanged(g1, "Node")
                 THEN ReturnFromConnect(g1, t, waiting)
                 ELSE [g |-> [g1 EXCEPT !.sent =
                                 Append(@, [method |-> "PATCH",
                                            session |-> data.sessionId,
                                            resuming |-> data.resumed])],
                       t |-> [t EXCEPT !.pc = "ready_request"]]
      [] OTHER -> AwaitMessage(g, t, waiting)

\* _listen line 208 and _handle_message, lines 181-201.  A 'ready' calls
\* Node.update_session(sessionId, resumed), which sends
\* PATCH sessions/<sessionId> with {'resuming': resumed} (node.py 702-723).
HandleMessage(g, t, waiting, data) ==
    CASE data.op = "invalid" -> ReturnFromConnect(g, t, waiting)
      [] data.op = "ready" ->
             LET g1 == [g EXCEPT !.status = "CONNECTED",
                                 !.session_id = data.sessionId,
                                 !.readySince = TRUE]
             IN  IF ~Exchanged(g1, "Node")
                 THEN ReturnFromConnect(g1, t, waiting)
                 ELSE [g |-> [g1 EXCEPT !.sent =
                                 Append(@, [method |-> "PATCH",
                                            session |-> data.sessionId,
                                            resuming |-> data.resumed])],
                       t |-> [t EXCEPT !.pc = "ready_request"]]
      [] data.op = "stats" ->
             IF data.whole
             THEN AwaitMessage(Dispatch(g, "node_stats_update"), t, waiting)
             ELSE ReturnFromConnect(g, t, waiting)
      [] data.op = "playerUpdate" ->
             IF data.guildId \in g.players
             THEN AwaitMessage(Dispatch(Invoke(g, "update_state"),
                                        "player_update"), t, waiting)
             ELSE AwaitMessage(g, t, waiting)
      [] data.op = "event" -> HandleEvent(g, t, waiting, data)
      [] OTHER -> AwaitMessage(g, t, waiting)

\* _handle_message, lines 189-190: the session update came back
AfterSessionUpdate(g, t, waiting, code) ==
    LET g1 == [g EXCEPT !.reqResult =
                   [call |-> "update_session", status |-> code]
                   @@ Respond(code)]
    IN  IF Respond(code).kind = "return"
        THEN AwaitMessage(Dispatch(g1, "node_ready"), t, waiting)
        ELSE ReturnFromConnect(g1, t, waiting)

\* _listen, lines 209-225, the mutant: after an error message _listen
\* returns without calling connect().
LeaveLoopStopsOnError(g, t, waiting, at, code) ==
    IF code = "INTERNAL_ERROR" THEN ReturnFromConnect(g, [t EXCEPT !.ws = NoWs],
                                                      waiting)
    ELSE CallConnect(g,
                     [t EXCEPT !.ws = NoWs,
                               !.stack = <<[at |-> at, close_code |-> code]>> \o @],
                     waiting)

\* _listen, lines 209-225: the loop is left and connect() is called
LeaveLoop(g, t, waiting, at, code) ==
    CallConnect(g,
                [t EXCEPT !.ws = NoWs,
                          !.stack = <<[at |-> at, close_code |-> code]>> \o @],
                waiting)

(***************************************************************************)
(* Steps                                                                   *)
(***************************************************************************)
\* The websockets other tasks are waiting on.
Waiting(i) == {tasks[j].ws : j \in {k \in Slots \ {i} : tasks[k].pc = "listen"}}

Commit(i, r) ==
    /\ status' = r.g.status
    /\ session_id' = r.g.session_id
    /\ node_transport' = r.g.node_transport
    /\ players' = r.g.players
    /\ websocket' = r.g.websocket
    /\ wsClosed' = r.g.wsClosed
    /\ session' = r.g.session
    /\ nws' = r.g.nws
    /\ emitted' = r.g.emitted
    /\ sent' = r.g.sent
    /\ calls' = r.g.calls
    /\ closes' = r.g.closes
    /\ invoked' = r.g.invoked
    /\ lastMessage' = r.g.lastMessage
    /\ reqResult' = r.g.reqResult
    /\ readySince' = r.g.readySince
    /\ returned' = r.g.returned
    /\ ended' = r.g.ended
    /\ closedLocally' = r.g.closedLocally
    /\ tasks' = [tasks EXCEPT ![i] = r.t]
    /\ UNCHANGED <<offNode, retries_limit>>

\* A step that is not a task's: what the last step did is forgotten.
Quiet ==
    /\ emitted' = <<>>
    /\ sent' = <<>>
    /\ calls' = <<>>
    /\ closes' = <<>>
    /\ invoked' = <<>>
    /\ lastMessage' = NoMessage
    /\ returned' = <<>>
    /\ ended' = <<>>

\* a connect task is suspended in the receive of the current websocket
Listening ==
    \E i \in Slots : tasks[i].pc = "listen" /\ tasks[i].ws = websocket

FreeSlot == CHOOSE i \in Slots : tasks[i].pc = "idle"
Spawn(pc) ==
    /\ \E i \in Slots : tasks[i].pc = "idle"
    /\ tasks' = [tasks EXCEPT ![FreeSlot] =
                     [IdleTask EXCEPT !.pc = pc,
                                      !.local = pc = "close" /\ Listening]]
    /\ Quiet
    /\ reqResult' = [call |-> pc, status |-> 0, kind |-> "return",
                     val |-> None]
    /\ UNCHANGED <<offNode, status, session_id, node_transport, players,
                   websocket, wsClosed, session, retries_limit, nws,
                   readySince, closedLocally>>

\* A call on the node after close(): node._transport is None (transport.py
\* line 250), and reading an attribute of it raises AttributeError
NodeLost(call) ==
    /\ Quiet
    /\ reqResult' = [call |-> call, status |-> 0, kind |-> "raise",
                     val |-> "AttributeError"]
    /\ UNCHANGED <<offNode, status, session_id, node_transport, players,
                   websocket, wsClosed, session, retries_limit, nws, tasks,
                   readySince, closedLocally>>

\* Node.connect(force): without a transport the call raises AttributeError;
\* on a live transport it returns unless forced, and the close() of line 188
\* is never awaited; otherwise a task running Transport.connect is created.
NodeConnect(force) ==
    IF node_transport = None THEN NodeLost("connect")
    ELSE /\ ~IsAlive(G) \/ force
         /\ Spawn("connect")

\* Node.close(): a task running Transport.close is created.
NodeClose ==
    IF node_transport = None THEN NodeLost("close")
    ELSE Spawn("close")

\* Node.request (node.py 725-772) or Transport.request (lines 255-292),
\* with the response the exchange gets.  The call writes nothing of the
\* node or the transport.
Request(through, code) ==
    /\ ~Exchanged(G, through) => code = NoResponse
    /\ reqResult' = [call |-> "request", status |-> code]
                    @@ RequestOutcome(G, through, code)
    /\ sent' = IF Exchanged(G, through)
               THEN <<[method |-> "GET", through |-> through]>> ELSE <<>>
    /\ emitted' = <<>>
    /\ calls' = <<>>
    /\ closes' = <<>>
    /\ invoked' = <<>>
    /\ lastMessage' = NoMessage
    /\ returned' = <<>>
    /\ ended' = <<>>
    /\ UNCHANGED <<offNode, status, session_id, node_transport, players,
                   websocket, wsClosed, session, retries_limit, nws, tasks,
                   readySince, closedLocally>>

\* Player.connect, player.py line 756: the player enters the registry.
PlayerConnected(guild) ==
    /\ guild \notin players
    /\ players' = players \cup {guild}
    /\ Quiet
    /\ reqResult' = NoOutcome
    /\ UNCHANGED <<offNode, status, session_id, node_transport, websocket,
                   wsClosed, session, retries_limit, nws, tasks, readySince,
                   closedLocally>>

\* Player._destroy, player.py lines 769-770: the player leaves the registry
\* and Node.destroy_player (node.py 202-234) asks the server to drop it.
PlayerDestroyed(guild, code) ==
    /\ guild \in players
    /\ players' = players \ {guild}
    /\ session_id # None /\ ~Exchanged(G, "Node") => code = NoResponse
    /\ session_id = None => code = NoResponse
    /\ reqResult' = [call |-> "destroy_player", status |-> code]
                    @@ (IF session_id = None THEN Raise("InvalidSession")
                        ELSE RequestOutcome(G, "Node", code))
    /\ sent' = IF session_id # None /\ Exchanged(G, "Node")
               THEN <<[method |-> "DELETE", guild |-> guild]>> ELSE <<>>
    /\ emitted' = <<>>
    /\ calls' = <<>>
    /\ closes' = <<>>
    /\ invoked' = <<>>
    /\ lastMessage' = NoMessage
    /\ returned' = <<>>
    /\ ended' = <<>>
    /\ UNCHANGED <<offNode, status, session_id, node_transport, websocket,
                   wsClosed, session, retries_limit, nws, tasks, readySince,
                   closedLocally>>

\* The task created by Node.connect starts.
StartConnect(i) ==
    /\ tasks[i].pc = "connect"
    /\ Commit(i, CallConnect(G, tasks[i], Waiting(i)))

\* The task created by Node.close starts.
StartClose(i) ==
    /\ tasks[i].pc = "close"
    /\ Commit(i, CallClose(G, tasks[i], Waiting(i)))

\* ws_connect comes back.  A closed session raises RuntimeError at once; at
\* most MaxWs websockets are opened.
Handshake(i, outcome) ==
    /\ tasks[i].pc = "handshake"
    /\ session = "closed" => outcome = "error"
    /\ outcome = "open" => nws < MaxWs
    /\ Commit(i, Attempt(G, tasks[i], Waiting(i), outcome))

\* sleep(delay) is over, line 119, back to line 72.
Wake(i) ==
    /\ tasks[i].pc = "sleep"
    /\ Commit(i, LoopTest(G, tasks[i], Waiting(i)))

\* A text message, lines 207-208.
ReceiveText(i, data) ==
    /\ tasks[i].pc = "listen"
    /\ tasks[i].ws \notin wsClosed
    /\ Commit(i, HandleMessage([G EXCEPT !.lastMessage =
                                    [type |-> "TEXT", data |-> data]],
                               tasks[i], Waiting(i), data))

\* The session update of a 'ready' is answered; a closed session fails it.
SessionUpdated(i, code) ==
    /\ tasks[i].pc = "ready_request"
    /\ session = "closed" => code = NoResponse
    /\ Commit(i, AfterSessionUpdate(G, tasks[i], Waiting(i), code))

\* An error message, lines 209-213 and 225; the websocket is closed by then.
ReceiveError(i) ==
    /\ tasks[i].pc = "listen"
    /\ tasks[i].ws \notin wsClosed
    /\ Commit(i, LeaveLoop([G EXCEPT !.wsClosed = @ \cup {tasks[i].ws},
                                     !.lastMessage = [type |-> "ERROR"]],
                           tasks[i], Waiting(i), "line225", "INTERNAL_ERROR"))

\* A close message, lines 214-222: CLOSE and CLOSED come from a closed
\* websocket, CLOSING from one that is not closed yet.
ReceiveClose(i, closed) ==
    /\ tasks[i].pc = "listen"
    /\ tasks[i].ws \notin wsClosed
    /\ Commit(i, LeaveLoop(Dispatch([G EXCEPT !.wsClosed =
                                        IF closed THEN @ \cup {tasks[i].ws}
                                        ELSE @,
                                              !.lastMessage = [type |-> "CLOSE"]],
                                    "connection_lost"),
                           tasks[i], Waiting(i), "line221", "REMOTE"))

\* The stream ends (closed by the remote or by close()), line 225.
EndOfStream(i) ==
    /\ tasks[i].pc = "listen"
    /\ Commit(i, LeaveLoop([G EXCEPT !.wsClosed = @ \cup {tasks[i].ws},
                                     !.lastMessage = [type |-> "END"]],
                           tasks[i], Waiting(i), "line225", None))

\* The close of the websocket is over, line 240, or it raised, which is
\* caught and logged (lines 241-245); on to line 247.
WebsocketClosed(i, raised) ==
    /\ tasks[i].pc = "closing_ws"
    /\ raised \in BOOLEAN
    /\ Commit(i, SessionClose(G, tasks[i], Waiting(i)))

\* The close of the session is over, line 247, on to lines 248-253.
SessionClosed(i) ==
    /\ tasks[i].pc = "closing_session"
    /\ Commit(i, FinishClose(G, tasks[i], Waiting(i)))

\* Node.__init__ and Transport.__init__
NodeNew(limits) ==
    /\ status = "DISCONNECTED"
    /\ session_id = None
    /\ node_transport = "Transport"
    /\ players = {}
    /\ websocket = NoWs
    /\ wsClosed = {}
    /\ session = "open"
    /\ retries_limit \in limits
    /\ nws = 0
    /\ tasks = [i \in Slots |-> IdleTask]
    /\ emitted = <<>>
    /\ sent = <<>>
    /\ calls = <<>>
    /\ closes = <<>>
    /\ invoked = <<>>
    /\ lastMessage = NoMessage
    /\ reqResult = NoOutcome
    /\ readySince = FALSE
    /\ returned = <<>>
    /\ ended = <<>>
    /\ closedLocally = FALSE

(***************************************************************************)
(* Part III  Player: the voice handshake of a player and its entry in the  *)
(*           node's registry (harmonize/player.py), with the call of       *)
(*           Node.update_player it makes (node.py).                        *)
(***************************************************************************)
VoiceSessions == {"v1", "v2"}
\* The guilds whose player takes steps
Active == 1..NumPlayers

\* An argument of a call: MISSING when not given, else what was given.
Absent == [type |-> MISSING, val |-> 0]
Given(type, val) == [type |-> type, val |-> val]
Fields == {"encoded_track", "identifier", "no_replace", "position",
           "end_time", "volume", "paused", "filters", "voice_state",
           "user_data", "kwargs"}
NoArgs == [f \in Fields |-> Absent]

\* isinstance(v, int): a bool is an int
IsInt(v) == v.type \in {"int", "bool"}

\* Node.update_player: the checks in the order of the code, then the body
\* of the PATCH; nothing is sent unless some key entered the body.
UpdatePlayerCheck(sid, a) ==
    IF sid = None THEN Raise("InvalidSession")
    ELSE IF a.encoded_track # Absent /\ a.identifier # Absent
    THEN Raise("ValueError")
    ELSE IF a.position # Absent /\ ~(IsInt(a.position) \/ a.position.type = "float")
    THEN Raise("ValueError")
    ELSE IF a.end_time # Absent /\ ~(IsInt(a.end_time) /\ a.end_time.val > 0)
    THEN Raise("ValueError")
    ELSE IF a.volume # Absent
            /\ ~(IsInt(a.volume) /\ 0 <= a.volume.val /\ a.volume.val <= 1000)
    THEN Raise("ValueError")
    ELSE IF a.paused # Absent /\ a.paused.type # "bool"
    THEN Raise("ValueError")
    ELSE IF a.filters # Absent /\ a.filters.type \notin {None, "list[Filter]"}
    THEN Raise("ValueError")
    ELSE IF a.voice_state # Absent /\ a.voice_state.type # "dict"
    THEN Raise("ValueError")
    ELSE Return("checked")

Json(a) ==
    {f \in {"position", "volume", "paused", "filters", "kwargs"} :
        a[f] # Absent}
    \cup (IF a.identifier # Absent \/ a.encoded_track # Absent
          THEN {"track"} ELSE {})
    \cup (IF a.end_time # Absent THEN {"endTime"} ELSE {})
    \cup (IF a.voice_state # Absent THEN {"voice"} ELSE {})

\* Variant: the PATCH is issued before the arguments are checked.
UpdatePlayerSendsFirst(g, guild, a, code) ==
    LET check == UpdatePlayerCheck(g.session_id, a)
        patch == IF Exchanged(g, "Node") /\ g.session_id # None
                 THEN <<[method |-> "PATCH", guild |-> guild,
                         session |-> g.session_id, json |-> Json(a)]>>
                 ELSE <<>>
    IN  IF check.kind = "raise" THEN [out |-> check, sent |-> patch]
        ELSE IF Json(a) = {} THEN [out |-> Return(None), sent |-> <<>>]
        ELSE [out |-> RequestOutcome(g, "Node", code), sent |-> patch]

\* What the call does: [out |-> the outcome, sent |-> the exchanges made]
UpdatePlayer(g, guild, a, code) ==
    LET check == UpdatePlayerCheck(g.session_id, a)
    IN  IF check.kind = "raise" THEN [out |-> check, sent |-> <<>>]
        ELSE IF Json(a) = {} THEN [out |-> Return(None), sent |-> <<>>]
        ELSE [out |-> RequestOutcome(g, "Node", code),
              sent |-> IF Exchanged(g, "Node")
                       THEN <<[method |-> "PATCH", guild |-> guild,
                               session |-> g.session_id, json |-> Json(a)]>>
                       ELSE <<>>]

\* The response an exchange of update_player can get
Answers(g, a, code) ==
    /\ UpdatePlayerCheck(g.session_id, a).kind = "raise" => code = NoResponse
    /\ Json(a) = {} => code = NoResponse
    /\ ~Exchanged(g, "Node") => code = NoResponse

\* The values a caller may give to each parameter
ValuesOf(f) ==
    CASE f = "encoded_track" -> {Given(None, 0), Given("str", 0)}
      [] f = "identifier" -> {Given("str", 0)}
      [] f = "no_replace" -> {Given("bool", 1)}
      [] f = "position" -> {Given("int", 5), Given("float", 0),
                            Given("bool", 1), Given("str", 0)}
      [] f = "end_time" -> {Given("int", 5), Given("int", 0),
                            Given("int", 0 - 1), Given("float", 5),
                            Given("str", 0)}
      [] f = "volume" -> {Given("int", 0), Given("int", 1000),
                          Given("int", 1001), Given("int", 0 - 1),
                          Given("float", 5), Given("str", 0)}
      [] f = "paused" -> {Given("bool", 1), Given("int", 1), Given("str", 0)}
      [] f = "filters" -> {Given(None, 0), Given("list[Filter]", 0),
                           Given("list", 0), Given("str", 0)}
      [] f = "voice_state" -> {Given("dict", 0), Given("str", 0)}
      [] f = "user_data" -> {Given("dict", 0)}
      [] f = "kwargs" -> {Given("dict", 0)}

\* The calls that give at most k of the parameters
RECURSIVE Supplying(_)
Supplying(k) ==
    IF k = 0 THEN {NoArgs}
    ELSE LET fewer == Supplying(k - 1)
         IN  fewer \cup UNION {UNION {{[a EXCEPT ![f] = v] : v \in ValuesOf(f)} :
                                       f \in Fields} : a \in fewer}

\* A call of Node.update_player by the application
CallUpdatePlayer(guild, code) ==
    LET up == UpdatePlayer(G, guild, args, code)
    IN  /\ Answers(G, args, code)
        /\ reqResult' = [call |-> "update_player", status |-> code,
                         guild |-> guild] @@ up.out
        /\ sent' = up.sent
        /\ emitted' = <<>>
        /\ calls' = <<>>
        /\ closes' = <<>>
        /\ invoked' = <<>>
        /\ lastMessage' = NoMessage
        /\ returned' = <<>>
        /\ ended' = <<>>
        /\ UNCHANGED <<offNode, status, session_id, node_transport, players,
                       websocket, wsClosed, session, retries_limit, nws,
                       tasks, readySince, closedLocally>>

\* Player.__init__
PlayerNew ==
    /\ connected = [p \in Guilds |-> FALSE]
    /\ voice_state = [p \in Guilds |-> [sessionId |-> None, server |-> FALSE]]
    /\ connection_event = [p \in Guilds |-> FALSE]
    /\ voice_channel = [p \in Guilds |-> FALSE]
    /\ connecting = [p \in Guilds |-> "no"]
    /\ lastConnect = [p \in Guilds |-> "none"]

\* What a step of a player leaves alone
PlayerFrame ==
    /\ emitted' = <<>>
    /\ calls' = <<>>
    /\ closes' = <<>>
    /\ invoked' = <<>>
    /\ lastMessage' = NoMessage
    /\ returned' = <<>>
    /\ ended' = <<>>
    /\ UNCHANGED <<offPlayer, status, session_id, node_transport, websocket,
                   wsClosed, session, retries_limit, nws, tasks, readySince,
                   closedLocally>>

\* The handler of a voice update, its player and the session id it was given
Handler(name, p, sid) == [handler |-> name, player |-> p, given |-> sid]

\* Player._dispatch_voice_update with the voice state vs, from the handler by
DispatchVoiceUpdate(p, vs, code, by) ==
    LET a == [NoArgs EXCEPT !.voice_state = Given("dict", 0)]
        full == vs.sessionId # None /\ vs.server
        up == UpdatePlayer(G, p, a, code)
    IN  /\ voice_state' = [voice_state EXCEPT ![p] = vs]
        /\ full => Answers(G, a, code)
        /\ ~full => code = NoResponse
        /\ sent' = IF full THEN up.sent ELSE <<>>
        /\ reqResult' = by @@ (IF full THEN [call |-> "update_player",
                                              status |-> code] @@ up.out
                               ELSE NoOutcome)
        /\ connection_event' =
              [connection_event EXCEPT ![p] = @ \/ (full /\ up.out.kind = "return")]

\* Player.on_voice_server_update
OnVoiceServerUpdate(p, code) ==
    /\ DispatchVoiceUpdate(p, [voice_state[p] EXCEPT !.server = TRUE], code,
                           Handler("on_voice_server_update", p, None))
    /\ PlayerFrame
    /\ UNCHANGED <<players, connected, voice_channel, connecting, lastConnect>>

\* Player.on_voice_state_update with a channel id
OnVoiceStateUpdate(p, sid, code) ==
    /\ IF sid # voice_state[p].sessionId
       THEN DispatchVoiceUpdate(p, [voice_state[p] EXCEPT !.sessionId = sid],
                                code, Handler("on_voice_state_update", p, sid))
       ELSE /\ code = NoResponse
            /\ sent' = <<>>
            /\ reqResult' = Handler("on_voice_state_update", p, sid) @@ NoOutcome
            /\ UNCHANGED <<voice_state, connection_event>>
    /\ PlayerFrame
    /\ UNCHANGED <<players, connected, voice_channel, connecting, lastConnect>>

\* Lines 755-756: the wait is over with the event set
Connected(p) ==
    /\ connected' = [connected EXCEPT ![p] = TRUE]
    /\ players' = players \cup {p}
    /\ connecting' = [connecting EXCEPT ![p] = "no"]
    /\ lastConnect' = [lastConnect EXCEPT ![p] = "connected"]

\* Player.connect up to the wait of line 750: the guild's voice state is
\* changed, and the wait returns at once when the event is already set.
PlayerConnect(p) ==
    /\ connecting[p] = "no"
    /\ voice_channel' = [voice_channel EXCEPT ![p] = TRUE]
    /\ IF connection_event[p] THEN Connected(p)
       ELSE /\ connecting' = [connecting EXCEPT ![p] = "waiting"]
            /\ lastConnect' = [lastConnect EXCEPT ![p] = "none"]
            /\ UNCHANGED <<connected, players>>
    /\ sent' = <<>>
    /\ reqResult' = NoOutcome
    /\ PlayerFrame
    /\ UNCHANGED <<voice_state, connection_event>>

\* Player.connect from line 750: the wait ends because the event was set,
\* or by the timeout or a cancellation, lines 751-753.
PlayerWaitOver(p, how) ==
    /\ connecting[p] = "waiting"
    /\ how = "set" => connection_event[p]
    /\ IF how = "set" THEN Connected(p)
       ELSE /\ connecting' = [connecting EXCEPT ![p] = "no"]
            /\ lastConnect' = [lastConnect EXCEPT ![p] = how]
            /\ UNCHANGED <<connected, players>>
    /\ sent' = <<>>
    /\ reqResult' = NoOutcome
    /\ PlayerFrame
    /\ UNCHANGED <<voice_state, connection_event, voice_channel>>

\* Player.disconnect -> Player._destroy; the del of line 769 raises KeyError
\* for a player that is not in the registry.
PlayerDisconnect(p, code) ==
    /\ connecting[p] = "no"
    /\ connection_event' = [connection_event EXCEPT ![p] = FALSE]
    /\ connected' = [connected EXCEPT ![p] = FALSE]
    /\ voice_channel' = [voice_channel EXCEPT ![p] = FALSE]
    /\ players' = players \ {p}
    /\ p \notin players \/ session_id = None \/ ~Exchanged(G, "Node")
          => code = NoResponse
    /\ reqResult' = [call |-> "disconnect", status |-> code]
                    @@ (IF p \notin players THEN Raise("KeyError")
                        ELSE IF session_id = None THEN Raise("InvalidSession")
                        ELSE RequestOutcome(G, "Node", code))
    /\ sent' = IF p \in players /\ session_id # None /\ Exchanged(G, "Node")
               THEN <<[method |-> "DELETE", guild |-> p]>> ELSE <<>>
    /\ PlayerFrame
    /\ UNCHANGED <<voice_state, connecting, lastConnect>>

(***************************************************************************)
(* Part IV  Pool: the nodes loaded into the pool, each with the life of    *)
(*          its connect task (harmonize/connection/pool.py over node.py    *)
(*          and transport.py), one step per await.                         *)
(***************************************************************************)
Identifiers == 1..NumNodes

\* Node.__init__ and Transport.__init__
NewNode == [status |-> "DISCONNECTED", alive |-> FALSE, closed |-> FALSE,
            loop |-> "none", retries |-> 0, closing |-> FALSE]

PoolNew ==
    /\ nodes = {}
    /\ pool = [n \in Identifiers |-> NewNode]
    /\ closedAll = FALSE

\* Pool.get_nodes: only the nodes whose status is CONNECTED
GetNodes == {n \in nodes : pool[n].status = "CONNECTED"}

\* Pool.load_node: Node.connect creates the connect task, the node is stored
LoadNode(n) ==
    /\ n \notin nodes
    /\ nodes' = nodes \cup {n}
    /\ pool' = [pool EXCEPT ![n].loop = "created"]
    /\ UNCHANGED <<closedAll, offPool>>

\* Transport.connect, line 122, and _connect_back up to the handshake
PoolStartConnect(n) ==
    /\ pool[n].loop = "created"
    /\ pool' = [pool EXCEPT ![n].status = "CONNECTING",
                            ![n].loop = "handshake", ![n].retries = 1]
    /\ UNCHANGED <<nodes, closedAll, offPool>>

\* Transport.close, lines 237-253
Closed(node) ==
    [node EXCEPT !.status = "DISCONNECTED", !.alive = FALSE, !.closed = TRUE]

\* _connect_back, lines 73-119: the handshake opens a websocket and _listen
\* starts, or fails (always on a closed session) and the task sleeps, or
\* closes the transport when the retries are used up.
PoolHandshake(n, opened) ==
    /\ pool[n].loop = "handshake"
    /\ opened => ~pool[n].closed
    /\ pool' = [pool EXCEPT ![n] =
          IF opened THEN [@ EXCEPT !.alive = TRUE, !.loop = "listen"]
          ELSE IF MaxRetries <= @.retries
          THEN [Closed(@) EXCEPT !.loop = "none", !.retries = 0]
          ELSE [@ EXCEPT !.loop = "sleep", !.retries = @ + 1]]
    /\ UNCHANGED <<nodes, closedAll, offPool>>

\* line 119: the sleep is over
PoolWake(n) ==
    /\ pool[n].loop = "sleep"
    /\ pool' = [pool EXCEPT ![n].loop = "handshake"]
    /\ UNCHANGED <<nodes, closedAll, offPool>>

\* _handle_message, lines 184-190: a 'ready' on the open websocket
PoolReady(n) ==
    /\ pool[n].loop = "listen"
    /\ pool[n].alive
    /\ pool' = [pool EXCEPT ![n].status = "CONNECTED"]
    /\ UNCHANGED <<nodes, closedAll, offPool>>

\* _listen, lines 225-232: the websocket is closed, the stream ends and the
\* task calls connect() again.
PoolListenEnds(n) ==
    /\ pool[n].loop = "listen"
    /\ ~pool[n].alive
    /\ pool' = [pool EXCEPT ![n].status = "CONNECTING",
                            ![n].loop = "handshake", ![n].retries = 1]
    /\ UNCHANGED <<nodes, closedAll, offPool>>

\* Pool.close_all: Node.close, which creates a task running
\* Transport.close, for each node of get_nodes()
CloseAll ==
    /\ pool' = [n \in Identifiers |->
                  IF n \in GetNodes THEN [pool[n] EXCEPT !.closing = TRUE]
                  ELSE pool[n]]
    /\ closedAll' = TRUE
    /\ UNCHANGED <<nodes, offPool>>

\* A task created by Node.close runs Transport.close
PoolClose(n) ==
    /\ pool[n].closing
    /\ pool' = [pool EXCEPT ![n] = [Closed(@) EXCEPT !.closing = FALSE]]
    /\ UNCHANGED <<nodes, closedAll, offPool>>

(***************************************************************************)
(* Part V  Track.from_encode over DataReader (harmonize/objects/track.py,  *)
(*         harmonize/utils/reader.py, utfm_codec.py, source_decoders.py).  *)
(*         A buffer is a sequence of bytes, a string the sequence of its   *)
(*         character codes.  A reader r is the cursor of the BytesIO, the  *)
(*         value of the last operation, the exception raised (None while   *)
(*         none), and the log of the _read calls: the field being decoded, *)
(*         the count asked for, the bytes got, and whether the operation   *)
(*         that made the call failed.                                      *)
(***************************************************************************)
NewReader == [cursor |-> 0, val |-> <<>>, null |-> FALSE, failure |-> None,
              field |-> "flags", fields |-> <<>>, reads |-> <<>>]

Failed(r) == r.failure # None

\* An exception leaves the operation that made the last _read call
Fail(r, name) ==
    [r EXCEPT !.failure = name,
              !.reads = IF @ = <<>> THEN @
                        ELSE [@ EXCEPT ![Len(@)].failed = TRUE]]

\* DataReader.remaining
Remaining(b, r) == Len(b) - r.cursor

\* DataReader._read: BytesIO.read gives the bytes there are, up to count
ReadCount(b, r, count) ==
    LET end == IF r.cursor + count < Len(b) THEN r.cursor + count ELSE Len(b)
        got == SubSeq(b, r.cursor + 1, end)
    IN  [r EXCEPT !.cursor = end, !.val = got, !.null = FALSE,
                  !.reads = Append(@, [field |-> r.field, wanted |-> count,
                                       got |-> got, failed |-> FALSE])]

\* struct.unpack of a format of the given size
Unpack(r, size) == IF Len(r.val) # size THEN Fail(r, "struct.error") ELSE r

ReadByte(b, r) == ReadCount(b, r, 1)

ReadBoolean(b, r) ==
    LET u == Unpack(ReadByte(b, r), 1)
    IN  IF Failed(u) THEN u
        ELSE [u EXCEPT !.val = <<IF u.val[1] # 0 THEN 1 ELSE 0>>]

ReadUnsignedShort(b, r) ==
    LET u == Unpack(ReadCount(b, r, 2), 2)
    IN  IF Failed(u) THEN u ELSE [u EXCEPT !.val = <<(u.val[1] * 256) + u.val[2]>>]

\* read_int and read_long: the value is kept as its big-endian bytes
ReadInt(b, r) == Unpack(ReadCount(b, r, 4), 4)
ReadLong(b, r) == Unpack(ReadCount(b, r, 8), 8)

ReadUtf(b, r) ==
    LET n == ReadUnsignedShort(b, r)
    IN  IF Failed(n) THEN n ELSE ReadCount(b, n, n.val[1])

\* utfm_codec.read_utfm: chars is the string so far; indexing beyond the
\* bytes raises IndexError
RECURSIVE Utfm(_, _, _, _)
Utfm(r, utf_len, count, chars) ==
    IF count >= utf_len THEN [r EXCEPT !.val = chars]
    ELSE IF count + 1 > Len(r.val) THEN Fail(r, "IndexError")
    ELSE LET char == r.val[count + 1]
             shift == char \div 16
         IN  IF shift <= 7 THEN Utfm(r, utf_len, count + 1, Append(chars, char))
             ELSE IF shift \in 12..13
             THEN IF count + 2 > utf_len THEN Fail(r, "UnicodeDecodeError")
                  ELSE IF count + 2 > Len(r.val) THEN Fail(r, "IndexError")
                  ELSE IF (r.val[count + 2] \div 64) # 2
                  THEN Fail(r, "UnicodeDecodeError")
                  ELSE Utfm(r, utf_len, count + 2,
                            Append(chars, ((char % 32) * 64)
                                          + (r.val[count + 2] % 64)))
             ELSE IF shift = 14
             THEN IF count + 3 > utf_len THEN Fail(r, "UnicodeDecodeError")
                  ELSE IF count + 3 > Len(r.val) THEN Fail(r, "IndexError")
                  ELSE IF \/ (r.val[count + 2] \div 64) # 2
                          \/ (r.val[count + 3] \div 64) # 2
                  THEN Fail(r, "UnicodeDecodeError")
                  ELSE Utfm(r, utf_len, count + 3,
                            Append(chars, ((char % 16) * 4096)
                                          + ((r.val[count + 2] % 64) * 64)
                                          + (r.val[count + 3] % 64)))
             ELSE Fail(r, "UnicodeDecodeError")

ReadUtfm(b, r) ==
    LET n == ReadUnsignedShort(b, r)
    IN  IF Failed(n) THEN n
        ELSE Utfm(ReadCount(b, n, n.val[1]), n.val[1], 0, <<>>)

\* bytes.decode() of a string of ASCII bytes: the characters of the same
\* codes (the envelopes decoded here hold no other byte in a plain string)
DecodeStr(r) ==
    IF Failed(r) THEN r
    ELSE IF \E k \in DOMAIN r.val : r.val[k] > 127
    THEN Fail(r, "UnicodeDecodeError")
    ELSE r

\* read_nullable_utf with utfm = False
ReadNullableUtf(b, r) ==
    LET exists == ReadBoolean(b, r)
    IN  IF Failed(exists) THEN exists
        ELSE IF exists.val[1] = 0 THEN [exists EXCEPT !.val = <<>>, !.null = TRUE]
        ELSE DecodeStr(ReadUtf(b, exists))

\* from_encode goes on to its next field, unless an exception has left it
Field(r, name) ==
    IF Failed(r) THEN r
    ELSE [r EXCEPT !.field = name, !.fields = Append(@, name)]

\* The statement after the one that left the reader as r: Op reads the field
\* of that name, unless an exception has left from_encode.  (The reader is
\* bound as an element of a set, so that it is computed once.)
Step(b, r, name, Op(_, _)) ==
    CHOOSE after \in {IF Failed(x) THEN x ELSE Op(b, Field(x, name)) : x \in {r}} :
        TRUE
\* reader.read_utf().decode()
ReadStr(b, r) == DecodeStr(ReadUtf(b, r))

\* The names of source_decoders.DEFAULT_DECODER_MAPPING: http and local,
\* then deezer, spotify, applemusic, yandexmusic and vkmusic
Http == <<104, 116, 116, 112>>
Deezer == <<100, 101, 101, 122, 101, 114>>
ProbeSources == {Http, <<108, 111, 99, 97, 108>>}
LavasrcSources ==
    {Deezer, <<115, 112, 111, 116, 105, 102, 121>>,
     <<97, 112, 112, 108, 101, 109, 117, 115, 105, 99>>,
     <<121, 97, 110, 100, 101, 120, 109, 117, 115, 105, 99>>,
     <<118, 107, 109, 117, 115, 105, 99>>}

\* decode_probe_info
DecodeProbeInfo(b, r) == Step(b, r, "probe_info", ReadStr)

\* decode_lavasrc_fields
Thru(b, r, name) == Step(b, r, name, ReadNullableUtf)
DecodeLavasrcFields(b, r) ==
    IF Remaining(b, r) <= 8 THEN r
    ELSE Step(b, Thru(b, Thru(b, Thru(b, Thru(b, Thru(b, r,
                 "album_name"), "album_url"), "artist_url"),
                 "artist_artwork_url"), "preview_url"),
              "is_preview", ReadBoolean)

\* lines 172-173
SourceFields(b, r) ==
    CHOOSE after \in
        {IF Failed(x) THEN x
         ELSE IF x.val \in ProbeSources THEN DecodeProbeInfo(b, x)
         ELSE IF x.val \in LavasrcSources THEN DecodeLavasrcFields(b, x)
         ELSE x : x \in {r}} : TRUE

\* lines 151-152: the top two bits of the flags word are those of its first
\* byte; the version byte is read when the lower of the two is set
\* struct.unpack('B', reader.read_byte())
ReadVersion(b, r) == Unpack(ReadByte(b, r), 1)
Header(b) ==
    CHOOSE h \in
        {IF Failed(flags) THEN [r |-> flags, version |-> 0]
         ELSE IF ((flags.val[1] \div 64) % 2) # 0
         THEN CHOOSE w \in {[r |-> v, version |-> IF Failed(v) THEN 0
                                                  ELSE v.val[1]] :
                              v \in {Step(b, flags, "version", ReadVersion)}} : TRUE
         ELSE [r |-> flags, version |-> 1] :
         flags \in {ReadInt(b, NewReader)}} : TRUE

\* lines 154-159
Common(b, r) ==
    Thru(b, Step(b, Step(b, Step(b, Step(b, Step(b, r,
            "title", ReadUtfm), "author", ReadUtfm), "length", ReadLong),
            "identifier", ReadStr), "isStream", ReadBoolean), "uri")

\* lines 162-164
Extra(b, r, version) ==
    IF version # 3 THEN r
    ELSE Thru(b, Thru(b, r, "artworkUrl"), "isrc")

\* lines 154-175: the fields after the header h
Body(b, h) ==
    Step(b, SourceFields(b, Step(b, Extra(b, Common(b, h.r), h.version),
                                 "sourceName", ReadStr)),
         "position", ReadLong)
\* Track.from_encode, lines 149-189: the reader at the end, the version,
\* and whether a Track was built
FromEncode(b) ==
    CHOOSE built \in
        UNION {{[r |-> position, version |-> h.version,
                 built |-> ~Failed(position)] : position \in {Body(b, h)}} :
               h \in {Header(b)}} : TRUE

\* The envelope a server writes for a track: the flags word with the
\* version bit and the version byte (none for version 1), then the fields
\* in the order from_encode reads them, artworkUrl and isrc from version 3.
Utf(str) == <<Len(str) \div 256, (Len(str) % 256)>> \o str
Nullable(str, null) == IF null THEN <<0>> ELSE <<1>> \o Utf(str)
Long(n) == <<0, 0, 0, 0, 0, 0, 0, n>>
Envelope(version, uri, artwork, source, more) ==
    (IF version = 1 THEN <<0, 0, 0, 40>> ELSE <<64, 0, 0, 40, version>>)
    \o Utf(<<84>>) \o Utf(<<195, 169>>) \o Long(9) \o Utf(<<105, 100>>)
    \o <<0>> \o Nullable(<<117>>, ~uri)
    \o (IF version >= 3 THEN Nullable(<<97>>, ~artwork) \o <<0>> ELSE <<>>)
    \o Utf(source)
    \o (IF source = Http THEN Utf(<<112>>)
        ELSE IF source = Deezer /\ more
        THEN Nullable(<<>>, TRUE) \o Nullable(<<98>>, FALSE) \o <<0, 0, 0>>
             \o <<1>>
        ELSE <<>>)
    \o Long(7)

Versions == 1..MaxVersion
Envelopes ==
    {Envelope(v, uri, art, src, more) :
        v \in Versions, uri \in BOOLEAN, art \in BOOLEAN,
        src \in {<<121>>, Http, Deezer}, more \in BOOLEAN}
\* The envelopes, whole or cut short
Inputs == UNION {{SubSeq(e, 1, n) : n \in 0..Len(e)} : e \in Envelopes}

NoDecoding == [called |-> FALSE]

DecodeNew ==
    /\ track = <<>>
    /\ decoding = NoDecoding

\* A call of Track.from_encode(track)
CallFromEncode ==
    /\ ~decoding.called
    /\ decoding' = [called |-> TRUE] @@ FromEncode(track)
    /\ UNCHANGED <<track, args, offDecode>>

(***************************************************************************)
(* Part VI  Queue (harmonize/queue.py).  A track is its number; an entry   *)
(*          of the queue is a track or a playlist entry with the tracks    *)
(*          still in it.                                                   *)
(***************************************************************************)
Tracks == 1..NumTracks
NoTrack == 0
MissingTrack == 0 - 1

TrackEntry(t) == [kind |-> "track", id |-> t, tracks |-> <<>>]
PlaylistEntry(ts) == [kind |-> "playlist", id |-> NoTrack, tracks |-> ts]

\* The lists of at most n tracks
RECURSIVE TrackLists(_)
TrackLists(n) ==
    IF n = 0 THEN {<<>>}
    ELSE TrackLists(n - 1)
         \cup {Append(l, t) : l \in TrackLists(n - 1), t \in Tracks}

NoLoad == [call |-> "none"]

\* Queue.__init__
QueueNew ==
    /\ loop = "OFF"
    /\ history = <<>>
    /\ listened_count = 0
    /\ now = <<>>
    /\ current = NoTrack
    /\ loaded = NoLoad

\* Queue.set_loop with a LoopStatus
SetLoop(value) ==
    /\ loop' = value
    /\ loaded' = NoLoad
    /\ UNCHANGED <<history, listened_count, now, current, offQueue>>

\* The entries of a list of tracks
Entries(ts) == [k \in DOMAIN ts |-> TrackEntry(ts[k])]

\* A call of add with its arguments, and the exception it raised
Added(positional, search, keyword, kts, error) ==
    [call |-> "add", positional |-> positional, search |-> search,
     keyword |-> keyword, kts |-> kts, error |-> error]

\* Queue.add, lines 194-205.  positional: a positional argument is passed;
\* search: it is a LoadResult (None otherwise) and ts its tracks; keyword is
\* "track", "tracks" or "none", and kts the track or tracks given with it.
\* Without a positional argument list(args).pop() raises IndexError; the
\* load result is appended as a playlist entry before the keywords are
\* looked at, and ValueError is raised after that.
Add(positional, search, ts, keyword, kts) ==
    /\ search => positional
    /\ ~search => ts = <<>>
    /\ keyword = "none" => kts = <<>>
    /\ keyword = "track" => Len(kts) = 1
    /\ Len(now) + (IF search THEN 1 ELSE 0) + Len(kts) <= MaxQueue
    /\ IF ~positional
       THEN /\ now' = now
            /\ loaded' = Added(positional, search, keyword, kts, "IndexError")
       ELSE /\ now' = now \o (IF search THEN <<PlaylistEntry(ts)>> ELSE <<>>)
                         \o Entries(kts)
            /\ loaded' = Added(positional, search, keyword, kts,
                               IF keyword = "none" THEN "ValueError"
                               ELSE "none")
    /\ UNCHANGED <<loop, history, listened_count, current, offQueue>>

\* bool(x) of a current track; that of the MISSING sentinel is as given
Truth(x, missing) ==
    IF x = MissingTrack THEN missing ELSE x # NoTrack

\* The queue at line 271: the current track appended under QUEUE
Appended(q, cur, missing) ==
    IF loop = "QUEUE" /\ Truth(cur, missing) THEN Append(q, TrackEntry(cur))
    ELSE q

\* Player.stop from load_next: update_player(encoded_track=None), then
\* queue._current = None; load_next returns the None of dispatch
Stop(q, stopped) ==
    [now |-> q, current |-> IF stopped THEN NoTrack ELSE current,
     history |-> history,
     out |-> IF stopped THEN [kind |-> "return", val |-> NoTrack,
                              queue_end |-> TRUE]
             ELSE [kind |-> "raise", val |-> NoTrack, queue_end |-> FALSE]]

\* Lines 289-293
Replace(q, t, missing) ==
    [now |-> q, current |-> t,
     history |-> IF Truth(current, missing) THEN <<current>> \o history
                 ELSE history,
     out |-> [kind |-> "return", val |-> t, queue_end |-> FALSE]]

\* Queue.load_next(track), lines 262-293; given is the track passed, or
\* MissingTrack
Load(given, stopped, missing) ==
    LET taken == IF loop = "TRACK" /\ Truth(current, missing)
                    /\ given = MissingTrack
                 THEN current ELSE given
        q == Appended(now, current, missing)
    IN  IF taken # MissingTrack THEN Replace(q, taken, missing)
        ELSE IF q = <<>> THEN Stop(q, stopped)
        ELSE IF q[1].kind = "playlist"
        THEN IF q[1].tracks = <<>>
             THEN IF Tail(q) = <<>> THEN Stop(Tail(q), stopped)
                  ELSE Replace(Tail(q), taken, missing)
             ELSE Replace(<<PlaylistEntry(Tail(q[1].tracks))>> \o Tail(q),
                          Head(q[1].tracks), missing)
        ELSE Replace(Tail(q), q[1].id, missing)

LoadNext(given, stopped, missing) ==
    LET l == Load(given, stopped, missing)
    IN  /\ Len(history) < MaxHistory
        /\ listened_count < MaxListened
        /\ listened_count' = listened_count + 1
        /\ now' = l.now
        /\ current' = l.current
        /\ history' = l.history
        /\ loaded' = [call |-> "load_next", given |-> given] @@ l.out
        /\ UNCHANGED <<loop, offQueue>>

(***************************************************************************)
(* Specifications                                                          *)
(***************************************************************************)
\* No call of update_player or from_encode is under way
OtherNew == args = NoArgs /\ DecodeNew /\ QueueNew

CacheInit == CacheNew(Capacities) /\ NodeNew({MaxRetries}) /\ PlayerNew /\ PoolNew
    /\ OtherNew
CacheNext == (CacheGet \/ CachePut) /\ UNCHANGED offCache

SpecCache == CacheInit /\ [][CacheNext]_vars

NodeInit == NodeNew(RetriesChoices) /\ CacheNew({MaxCapacity}) /\ PlayerNew /\ PoolNew
    /\ OtherNew

TaskStep(i) ==
    \/ StartConnect(i)
    \/ StartClose(i)
    \/ \E o \in HandshakeOutcomes : Handshake(i, o)
    \/ Wake(i)
    \/ \E data \in Messages : ReceiveText(i, data)
    \/ \E code \in Responses : SessionUpdated(i, code)
    \/ ReceiveError(i)
    \/ \E c \in BOOLEAN : ReceiveClose(i, c)
    \/ EndOfStream(i)
    \/ \E raised \in BOOLEAN : WebsocketClosed(i, raised)
    \/ SessionClosed(i)

NodeNext ==
    \/ \E force \in BOOLEAN : NodeConnect(force)
    \/ NodeClose
    \/ \E through \in {"Node", "Transport"}, code \in Responses :
          Request(through, code)
    \/ \E guild \in Guilds : PlayerConnected(guild)
    \/ \E guild \in Guilds, code \in Responses : PlayerDestroyed(guild, code)
    \/ \E i \in Slots : TaskStep(i)

SpecNode == NodeInit /\ [][NodeNext]_vars

\* One connect() whose attempts all fail, for retry bounds up to MaxAttempts:
\* Node.connect, then _connect_back's loop until it gives up and closes.
BackoffInit == NodeNew(1..MaxAttempts) /\ CacheNew({MaxCapacity}) /\ PlayerNew /\ PoolNew
    /\ OtherNew

BackoffNext ==
    \/ NodeConnect(FALSE)
    \/ StartConnect(1)
    \/ \E o \in {"refused", "error"} : Handshake(1, o)
    \/ Wake(1)
    \/ SessionClosed(1)

SpecBackoff == BackoffInit /\ [][BackoffNext]_vars

\* The players of a node: the node connects and handles 'ready', the players
\* connect, receive their voice updates and disconnect.
PlayerInit == NodeNew({MaxRetries}) /\ CacheNew({MaxCapacity}) /\ PlayerNew /\ PoolNew
    /\ OtherNew

PlayerNext ==
    \/ NodeConnect(FALSE)
    \/ StartConnect(1)
    \/ Handshake(1, "open")
    \/ \E data \in {m \in Messages : m.op = "ready"} : ReceiveText(1, data)
    \/ SessionUpdated(1, 200)
    \/ \E p \in Active : PlayerConnect(p)
    \/ \E p \in Active, how \in {"set", "timeout", "cancelled"} :
          PlayerWaitOver(p, how)
    \/ \E p \in Active, code \in Responses : OnVoiceServerUpdate(p, code)
    \/ \E p \in Active, sid \in VoiceSessions, code \in Responses :
          OnVoiceStateUpdate(p, sid, code)
    \/ \E p \in Active, code \in Responses : PlayerDisconnect(p, code)

SpecPlayer == PlayerInit /\ [][PlayerNext]_vars

\* Calls of Node.update_player, with at most MaxSupplied parameters given,
\* on a node that connects, handles 'ready' and is closed.
UpdateInit ==
    /\ NodeNew({MaxRetries}) /\ CacheNew({MaxCapacity}) /\ PlayerNew /\ PoolNew
    /\ args \in Supplying(MaxSupplied)
    /\ DecodeNew
    /\ QueueNew

UpdateNext ==
    \/ NodeConnect(FALSE)
    \/ StartConnect(1)
    \/ Handshake(1, "open")
    \/ \E data \in {m \in Messages : m.op = "ready" /\ ~m.resumed} :
          ReceiveText(1, data)
    \/ SessionUpdated(1, 200)
    \/ NodeClose
    \/ StartClose(2)
    \/ WebsocketClosed(2, FALSE)
    \/ SessionClosed(2)
    \/ \E guild \in Guilds, code \in Responses : CallUpdatePlayer(guild, code)

SpecUpdate == UpdateInit /\ [][UpdateNext]_vars

\* Calls of Track.from_encode on the envelopes of the versions up to
\* MaxVersion, whole or cut short.
DecodeInit ==
    /\ NodeNew({MaxRetries}) /\ CacheNew({MaxCapacity}) /\ PlayerNew /\ PoolNew
    /\ args = NoArgs
    /\ track \in Inputs
    /\ decoding = NoDecoding
    /\ QueueNew

DecodeNext == CallFromEncode

SpecDecode == DecodeInit /\ [][DecodeNext]_vars

\* A queue: tracks and load results are added, the loop status is set,
\* the next track is loaded.
QueueInit ==
    /\ NodeNew({MaxRetries}) /\ CacheNew({MaxCapacity}) /\ PlayerNew /\ PoolNew
    /\ OtherNew

QueueNext ==
    \/ \E value \in {"OFF", "TRACK", "QUEUE"} : SetLoop(value)
    \/ \E positional \in BOOLEAN, search \in BOOLEAN,
          ts \in TrackLists(MaxPlaylist),
          keyword \in {"track", "tracks", "none"},
          kts \in TrackLists(MaxQueue) :
          Add(positional, search, ts, keyword, kts)
    \/ \E given \in Tracks \cup {MissingTrack}, stopped \in BOOLEAN,
          missing \in BOOLEAN : LoadNext(given, stopped, missing)

SpecQueue == QueueInit /\ [][QueueNext]_vars

\* The nodes of a pool: loaded, connecting, connected, closed together.
PoolInit == PoolNew /\ NodeNew({MaxRetries}) /\ CacheNew({MaxCapacity})
            /\ PlayerNew /\ OtherNew

PoolNext ==
    \/ \E n \in Identifiers : LoadNode(n)
    \/ \E n \in Identifiers : PoolStartConnect(n)
    \/ \E n \in Identifiers, opened \in BOOLEAN : PoolHandshake(n, opened)
    \/ \E n \in Identifiers : PoolWake(n)
    \/ \E n \in Identifiers : PoolReady(n)
    \/ \E n \in Identifiers : PoolListenEnds(n)
    \/ CloseAll
    \/ \E n \in Identifiers : PoolClose(n)

SpecPool == PoolInit /\ [][PoolNext]_vars

\* The lists and their callers
DllInit == DllNew /\ NodeNew({MaxRetries}) /\ PlayerNew /\ PoolNew /\ OtherNew

DllNext ==
    \/ \E f \in Lists, k \in Keys : DllAppend(f, k)
    \/ \E k \in Keys : DllRemove(k)
    \/ \E f \in Lists : DllPopleft(f)

SpecDll == DllInit /\ [][DllNext]_vars

(***************************************************************************)
(* Properties of the cache                                                 *)
(***************************************************************************)
RECURSIVE WalkFrom(_, _, _, _)
WalkFrom(l, n, stop, fuel) ==
    IF n = None \/ n = stop \/ fuel = 0 THEN <<>>
    ELSE <<NodeValue(n)>> \o WalkFrom(l, l[n], stop, fuel - 1)

\* The keys of bucket f, head first, read off the list pointers.
BucketIn(fm, l, f) ==
    IF f \in fm THEN WalkFrom(l, l[HeadOf(f)], TailOf(f), NumKeys + 1) ELSE <<>>
Bucket(f) == BucketIn(freq_map, later, f)

Stored == DOMAIN cache
SmallerOf(a, b) == IF a <= b THEN a ELSE b
LeastCount(c) ==
    CHOOSE m \in {c[k].frequency : k \in DOMAIN c} :
        \A k \in DOMAIN c : m <= c[k].frequency
\* Position of key k in the history order.
EntryRank(k) == CHOOSE i \in 1..Len(order) : order[i] = k

\* C1: with capacity c >= 1 the number of stored keys never exceeds c after
\* any call, and after puts of pairwise distinct keys only (no other call)
\* min(number of keys put, c) keys are stored: c of them after c+1 puts.
C1_CapacityNeverExceeded ==
    capacity >= 1 =>
        /\ Cardinality(Stored) <= capacity
        /\ freshPuts # Mixed =>
               Cardinality(Stored) = SmallerOf(Cardinality(freshPuts), capacity)

C1_Witness ==
    /\ capacity >= 1
    /\ freshPuts # Mixed
    /\ Cardinality(freshPuts) = capacity + 1
    /\ Cardinality(Stored) = capacity

\* C2: a put of an absent key into a full cache evicts exactly one key; that
\* key has the least access count of the stored keys and, among the keys of
\* that count, entered its count class earliest; every other key is kept
\* with its value and count, and the new key is stored with count 1.
C2_EvictsOldestOfLeastCount ==
    [][\A k \in Keys :
        (/\ lastOp'.op = "put" /\ lastOp'.key = k
         /\ capacity >= 1
         /\ k \notin Stored
         /\ Cardinality(Stored) = capacity)
        => \E e \in Stored :
              /\ DOMAIN cache' = (Stored \ {e}) \cup {k}
              /\ cache[e].frequency = LeastCount(cache)
              /\ \A o \in Stored :
                    cache[o].frequency = cache[e].frequency
                        => EntryRank(e) <= EntryRank(o)
              /\ \A o \in Stored \ {e} : cache'[o] = cache[o]
              /\ cache'[k].frequency = 1
              /\ cache'[k].value = lastOp'.arg]_vars

\* The example: capacity 2, put(A), put(B), get(A), put(C) leaves {A, C},
\* A at count 2 and C at count 1, B evicted.
C2_Witness ==
    /\ capacity = 2
    /\ lastOp.op = "put" /\ lastOp.key = "C"
    /\ order = <<"A", "C">>
    /\ Stored = {"A", "C"}
    /\ cache["A"].frequency = 2
    /\ cache["C"].frequency = 1

\* C3: get of a stored key of count f returns the value most recently put for
\* it, raises its count to f+1, makes it the newest of bucket f+1 and changes
\* neither the stored keys nor any other key's value, count or bucket order.
C3_GetBumpsOnlyItsKey ==
    [][\A k \in Keys :
        (lastOp'.op = "get" /\ lastOp'.key = k /\ k \in Stored)
        => LET f == cache[k].frequency
               b == BucketIn(freq_map', later', f + 1)
           IN  /\ result' = [kind |-> "return", val |-> lastPut[k]]
               /\ cache'[k].frequency = f + 1
               /\ cache'[k].value = cache[k].value
               /\ Len(b) >= 1 /\ b[Len(b)] = k
               /\ DOMAIN cache' = Stored
               /\ \A o \in Stored \ {k} : cache'[o] = cache[o]
               /\ \A g \in Freqs :
                     Without(BucketIn(freq_map', later', g), k)
                         = Without(Bucket(g), k)]_vars

C3_Witness ==
    /\ lastOp.op = "get"
    /\ lastOp.key \in Stored
    /\ cache[lastOp.key].frequency = 2
    /\ Len(Bucket(2)) >= 2
    /\ result.kind = "return"

\* C4: put of a stored key overwrites its value, raises its count by exactly
\* one, evicts nothing and leaves the number of stored keys (and the used
\* counter) unchanged, also when the cache is full.
C4_PutStoredKeyOverwrites ==
    [][\A k \in Keys :
        (lastOp'.op = "put" /\ lastOp'.key = k /\ k \in Stored /\ capacity >= 1)
        => /\ cache'[k].value = lastOp'.arg
           /\ cache'[k].frequency = cache[k].frequency + 1
           /\ DOMAIN cache' = Stored
           /\ used' = used
           /\ \A o \in Stored \ {k} : cache'[o] = cache[o]
           /\ result' = [kind |-> "return", val |-> None]]_vars

C4_Witness ==
    /\ lastOp.op = "put"
    /\ lastOp.key \in Stored
    /\ cache[lastOp.key].frequency >= 2
    /\ cache[lastOp.key].value = lastOp.arg
    /\ Cardinality(Stored) = capacity
    /\ capacity >= 2

\* C5 (as claimed): get of a key that is not stored, without a default,
\* returns the NotFound sentinel, raises nothing and changes nothing.
C5_GetMissReturnsNotFound ==
    [][\A k \in Keys :
        (lastOp'.op = "get" /\ lastOp'.key = k /\ lastOp'.arg = MISSING
         /\ k \notin Stored)
        => /\ result' = [kind |-> "return", val |-> "NotFound"]
           /\ UNCHANGED <<cache, freq_map, later, previous, min_freq, used>>]_vars

C7_MinPointsAtLeastBucket ==
    /\ Stored # {} =>
          /\ min_freq \in freq_map
          /\ DLLbool(Heap, min_freq)
          /\ min_freq = LeastCount(cache)
    /\ capacity >= 1 => result.kind = "return" \/ result.val = "NameError"

C7_Witness ==
    /\ Stored # {}
    /\ min_freq >= 2
    /\ Cardinality(Stored) = capacity
    /\ lastOp.op = "get"

(***************************************************************************)
(* Claims about the node's connection (SpecNode).                          *)
(***************************************************************************)

\* the step opened a websocket: ws_connect returned one (transport.py:87)
Opened == nws' # nws

\* C8: the status is CONNECTED only if a ready message was handled after the
\* latest start of connect() and after the latest close() reset the status;
\* a step in which the handshake opens the stream leaves the status as it
\* was (CONNECTING stays CONNECTING) and notifies node_ready.
C8_ConnectedOnlyAfterReady ==
    [][ /\ status' = "CONNECTED" => readySince'
        /\ Opened => /\ status' = status
                     /\ \E k \in DOMAIN emitted' : emitted'[k] = "node_ready"
      ]_vars

\* C8, its case: the stream is open, a task listens on it, node_ready was
\* notified by the opening step, no ready message came: status CONNECTING.
C8_Witness ==
    /\ status = "CONNECTING"
    /\ ~readySince
    /\ IsAlive(G)
    /\ Listening
    /\ emitted = <<"node_ready">>

\* C9: a task whose handshake was rejected with 401 or 404 only closes the
\* transport after that: it neither attempts a handshake nor sleeps a
\* backoff delay again.
C9_NoRetryAfterRejection ==
    \A i \in Slots :
        tasks[i].rejected => tasks[i].pc \in {"closing_ws", "closing_session"}

\* C10: a connect() invocation that made attempts, all of which failed with
\* a transient error, returns after exactly R attempts and R-1 backoff
\* sleeps, the node being DISCONNECTED (R the node's retry bound).
C10_ExactlyRAttempts ==
    \A k \in DOMAIN returned :
        /\ returned[k].attempts = retries_limit
        /\ returned[k].sleeps = retries_limit - 1
        /\ returned[k].status = "DISCONNECTED"

MinOf(a, b) == IF a < b THEN a ELSE b

\* C11: the delay slept after the k-th failed attempt of a connect() is
\* min(3*k, 30): it is at most 30 and not less than the delay before it.
C11_BackoffDelay ==
    \A i \in Slots :
        tasks[i].pc = "sleep" =>
            LET k == tasks[i].attempts
            IN  /\ tasks[i].delay = MinOf(3 * k, 30)
                /\ tasks[i].delay <= 30
                /\ k > 1 => tasks[i].delay >= MinOf(3 * (k - 1), 30)

\* C11, its case: the sleep after the 11th failed attempt, capped at 30.
C11_Witness ==
    \E i \in Slots :
        /\ tasks[i].pc = "sleep"
        /\ tasks[i].attempts = 11
        /\ tasks[i].sleeps = 11
        /\ tasks[i].delay = 30

\* the step received a 'ready' message
ReadyReceived ==
    /\ lastMessage'.type = "TEXT"
    /\ lastMessage'.data.op = "ready"

\* the step got the answer to the session update of a 'ready'
ReadyAnswered ==
    \E i \in Slots : tasks[i].pc = "ready_request" /\ tasks'[i] # tasks[i]

Notified(events, name) == \E k \in DOMAIN events : events[k] = name

\* C12: the step that receives a 'ready' sets the status CONNECTED and the
\* session id to the message's sessionId, sends (the transport's stream
\* being open) exactly one session update, for that session and with the
\* message's resumed flag, and notifies nothing; node_ready is notified by
\* the step that gets the answer, which sends no further request, and only
\* if the update returned.
C12_ReadyThenUpdateThenNotify ==
    [][ /\ ReadyReceived =>
              /\ status' = "CONNECTED"
              /\ session_id' = lastMessage'.data.sessionId
              /\ emitted' = <<>>
              /\ Exchanged(G', "Node") =>
                    /\ sent' = <<[method |-> "PATCH",
                                  session |-> lastMessage'.data.sessionId,
                                  resuming |-> lastMessage'.data.resumed]>>
                    /\ \E i \in Slots : /\ tasks[i].pc = "listen"
                                        /\ tasks'[i].pc = "ready_request"
        /\ ReadyAnswered =>
              /\ sent' = <<>>
              /\ Notified(emitted', "node_ready") <=> reqResult'.kind = "return"
      ]_vars

\* C12, its case: a 'ready' with resumed set was received and its session
\* update is under way.
C12_Witness ==
    /\ lastMessage.type = "TEXT"
    /\ lastMessage.data.op = "ready"
    /\ lastMessage.data.resumed
    /\ status = "CONNECTED"
    /\ session_id = lastMessage.data.sessionId
    /\ Len(sent) = 1
    /\ sent[1].resuming
    /\ emitted = <<>>
    /\ \E i \in Slots : tasks[i].pc = "ready_request"

\* a call of Transport.close completed in the last step
CloseDone(log) == \E k \in DOMAIN log : log[k].event = "done"

\* C13: when a call of Transport.close completes (whatever the state it was
\* called in, the websocket's close having raised or not, the transport
\* closed before or not) the status is DISCONNECTED, the session id None
\* and the registry of players empty, as long as the caller does not go on
\* to call connect() in the same step; the call returns, no error leaves it.
C13_CloseResets ==
    [][ (CloseDone(closes') /\ calls' = <<>>) =>
            /\ status' = "DISCONNECTED"
            /\ session_id' = None
            /\ players' = {}
            /\ session' = "closed"
      ]_vars

\* C13, its case: a second close() of a transport already closed completed.
C13_Witness ==
    /\ \E k \in DOMAIN closes : closes[k].event = "done" /\ closes[k].again
    /\ calls = <<>>
    /\ status = "DISCONNECTED"
    /\ session_id = None
    /\ players = {}

RECURSIVE CountOf(_, _)
\* how many elements of the sequence q are x
CountOf(q, x) ==
    IF q = <<>> THEN 0
    ELSE (IF Head(q) = x THEN 1 ELSE 0) + CountOf(Tail(q), x)

RECURSIVE SumOver(_, _)
\* the number of _listen frames suspended at line 221, over the tasks in S
SumOver(ts, S) ==
    IF S = {} THEN 0
    ELSE LET i == CHOOSE j \in S : TRUE
         IN  CountOf([k \in DOMAIN ts[i].stack |-> ts[i].stack[k].at], "line221")
             + SumOver(ts, S \ {i})

BreakAtLine221(ts) == SumOver(ts, Slots)

\* C14: a step in which the loop of _listen is left by the end of the
\* stream or an error message calls connect() at line 225; one in which it
\* is left by a close message calls connect() at line 221, and every such
\* call that returns is followed, in the step of its return, by the call
\* of line 225.  A step that calls connect() leaves the status CONNECTING,
\* and the task in a handshake attempt unless the stream is alive.
C14_ReconnectAfterLoop ==
    [][ /\ lastMessage'.type \in {"END", "ERROR"} =>
              calls' # <<>> /\ calls'[1] = "line225"
        /\ lastMessage'.type = "CLOSE" =>
              calls' # <<>> /\ calls'[1] = "line221"
        /\ BreakAtLine221(tasks') + CountOf(calls', "line225")
              = BreakAtLine221(tasks)
                + CountOf(calls', "line221")
                + (IF lastMessage'.type \in {"END", "ERROR"} THEN 1 ELSE 0)
        /\ calls' # <<>> =>
              /\ status' = "CONNECTING"
              /\ \/ IsAlive(G')
                 \/ \E i \in Slots : /\ tasks'[i] # tasks[i]
                                      /\ tasks'[i].pc = "handshake"
                                      /\ tasks'[i].attempts = 0
      ]_vars

\* C14, its case: the stream ended, connect() was called at line 225, the
\* status is CONNECTING and the task is in the first attempt of a new round.
C14_Witness ==
    /\ lastMessage.type = "END"
    /\ calls = <<"line225">>
    /\ status = "CONNECTING"
    /\ ~IsAlive(G)
    /\ \E i \in Slots : /\ tasks[i].pc = "handshake"
                        /\ tasks[i].attempts = 0
                        /\ tasks[i].stack # <<>>

\* C15: a close() made by a task whose reconnect of line 225 failed is
\* called with the close code _listen observed, or with ABNORMAL_CLOSURE when
\* it observed none.
C15_ClosesWithObservedCode ==
    \A k \in DOMAIN closes :
        (closes[k].event = "call" /\ closes[k].from.at = "line225") =>
            closes[k].code = IF closes[k].from.close_code = None
                             THEN "ABNORMAL_CLOSURE"
                             ELSE closes[k].from.close_code

\* C16: at most one task is in the connect/listen/reconnect loop.
C16_OneConnectTask ==
    Cardinality({i \in Slots : tasks[i].pc \in {"handshake", "sleep", "listen",
                                                "ready_request"}}) <= 1

\* C17: a request made when the stream has been closed, on the transport or
\* through the node, fails with IOError and starts no exchange.
C17_ClosedStreamIOError ==
    (/\ reqResult.kind # "none"
     /\ reqResult.call = "request"
     /\ websocket \in wsClosed) =>
        /\ reqResult.kind = "raise"
        /\ reqResult.val = "IOError"
        /\ sent = <<>>

\* C18: a request answered with 401 or 403 fails with AuthenticationError.
C18_AuthenticationErrorSeen ==
    (/\ reqResult.kind # "none"
     /\ reqResult.call = "request"
     /\ reqResult.status \in {401, 403}) =>
        /\ reqResult.kind = "raise"
        /\ reqResult.val = "AuthenticationError"

\* C19: a request returns a result only for the statuses 200 (the body) and
\* 204 (true); for every other status it fails.
C19_OnlySuccessReturns ==
    (/\ reqResult.kind # "none"
     /\ reqResult.call = "request"
     /\ sent # <<>>) =>
        CASE reqResult.status = 200 -> reqResult = [call |-> "request", status |-> 200]
                                                   @@ Return("body")
          [] reqResult.status = 204 -> reqResult = [call |-> "request", status |-> 204]
                                                   @@ Return("True")
          [] OTHER -> reqResult.kind = "raise"

\* the step received a playerUpdate or an event for a guild without player
Orphan ==
    /\ lastMessage'.type = "TEXT"
    /\ lastMessage'.data.op \in {"playerUpdate", "event"}
    /\ lastMessage'.data.guildId \notin players

\* C20: a playerUpdate or event message for a guild that has no player in
\* the registry changes nothing of the node and the transport, notifies
\* nothing, invokes no player coroutine, sends nothing, and the task goes
\* on waiting for the next message.
C20_OrphanDropped ==
    [][ Orphan =>
            /\ emitted' = <<>>
            /\ invoked' = <<>>
            /\ sent' = <<>>
            /\ calls' = <<>>
            /\ closes' = <<>>
            /\ tasks' = tasks
            /\ UNCHANGED <<status, session_id, node_transport, players,
                           websocket, wsClosed, session, nws, readySince>>
      ]_vars

\* C20, its case: an event for a guild without player was received while
\* another guild has one; the task waits for the next message.
C20_Witness ==
    /\ lastMessage.type = "TEXT"
    /\ lastMessage.data.op = "event"
    /\ lastMessage.data.guildId \notin players
    /\ players # {}
    /\ emitted = <<>>
    /\ invoked = <<>>
    /\ \E i \in Slots : tasks[i].pc = "listen" /\ tasks[i].ws = websocket

\* the step received an event for a guild whose player is in the registry
\* and notified it
EventNotified ==
    /\ lastMessage'.type = "TEXT"
    /\ lastMessage'.data.op = "event"
    /\ lastMessage'.data.guildId \in players
    /\ emitted' # <<>>

EventType == lastMessage'.data.type

\* C21: for a player in the registry a TrackEndEvent or TrackStuckEvent is
\* notified (track_end, track_stuck) and then given once to the player's
\* handle_event; the other events are notified and never given to it.
C21_EndAndStuckReachHandler ==
    [][ EventNotified =>
            /\ emitted' = <<EventName(EventType)>>
            /\ IF EventType \in {"TrackEndEvent", "TrackStuckEvent"}
               THEN /\ Len(invoked') = 1
                    /\ invoked'[1].name = "handle_event"
                    /\ invoked'[1].after = 1
               ELSE invoked' = <<>>
      ]_vars

\* C22: when the handler raises while a TrackEndEvent or TrackStuckEvent is
\* delivered, the task goes on waiting for the next message of its
\* websocket and the node is as it was: status, session id, registry,
\* transport; nothing is closed and connect() is not called.
C22_HandlerErrorContained ==
    [][ (\E k \in DOMAIN invoked' : /\ invoked'[k].name = "handle_event"
                                     /\ invoked'[k].raised) =>
            /\ tasks' = tasks
            /\ \E i \in Slots : tasks'[i].pc = "listen"
            /\ calls' = <<>>
            /\ closes' = <<>>
            /\ UNCHANGED <<status, session_id, node_transport, players,
                           websocket, wsClosed, session, readySince>>
      ]_vars

\* C22, its case: the handler was invoked for a TrackEndEvent and raised;
\* the node is CONNECTED and the task listens on.
C22_Witness ==
    /\ lastMessage.type = "TEXT"
    /\ lastMessage.data.op = "event"
    /\ lastMessage.data.type = "TrackEndEvent"
    /\ emitted = <<"track_end">>
    /\ Len(invoked) = 1
    /\ invoked[1].raised
    /\ status = "CONNECTED"
    /\ \E i \in Slots : tasks[i].pc = "listen" /\ tasks[i].ws = websocket

\* A TrackEndEvent or TrackStuckEvent arrives for a player of the registry
EndArrived ==
    /\ lastMessage'.type = "TEXT"
    /\ lastMessage'.data.op = "event"
    /\ lastMessage'.data.guildId \in players
    /\ lastMessage'.data.type \in {"TrackEndEvent", "TrackStuckEvent"}

Played == \E k \in DOMAIN invoked' : invoked'[k].name = "play"

\* C32: when a TrackEndEvent with reason finished or loadFailed, or a
\* TrackStuckEvent, arrives for a player of the registry, the player's
\* handler calls play(), which advances to the next track of the queue; with
\* reason stopped, replaced or cleanup the handler does not call it.
C32_HandlerAdvances ==
    [][ EndArrived =>
            /\ \/ EventType = "TrackStuckEvent"
               \/ lastMessage'.data.reason = "finished"
                  => Played
            /\ EventType = "TrackEndEvent"
               /\ lastMessage'.data.reason = "stopped"
                  => ~Played
      ]_vars

(***************************************************************************)
(* Properties of the player                                                *)
(***************************************************************************)
FreshVoice == [sessionId |-> None, server |-> FALSE]

\* C23: when the wait of Player.connect ends by the timeout or a
\* cancellation, the player is not connected and not in the registry, the
\* node's status and session id are as before, and the player is as a new
\* one: no voice state kept, the event clear, the guild's voice state not
\* pointing at a channel.
C23_TimeoutLeavesNothing ==
    [][\A p \in Guilds :
          connecting[p] = "waiting" /\ connecting'[p] = "no"
          /\ lastConnect'[p] \in {"timeout", "cancelled"}
          => /\ ~connected'[p]
             /\ p \notin players'
             /\ status' = status
             /\ session_id' = session_id
             /\ voice_state'[p] = FreshVoice
             /\ ~connection_event'[p]
             /\ ~voice_channel'[p]]_vars

\* C24: a task of Node.connect whose handshake was rejected with 401 or 404
\* ends by raising AuthorizationError or NodeUnknownError, which is how the
\* rejection would reach the caller of Node.connect.
C24_RejectionRaised ==
    \A k \in DOMAIN ended :
        ended[k].rejected =>
            /\ ended[k].kind = "raise"
            /\ ended[k].val \in {"AuthorizationError", "NodeUnknownError"}

\* C25: a Node.connect that starts a connect task while the transport is
\* alive (the call was forced) closes the existing connection: the call of
\* Transport.close is made in that step.
C25_ForceClosesFirst ==
    [][(/\ IsAlive(G)
        /\ \E i \in Slots : tasks[i].pc = "idle" /\ tasks'[i].pc = "connect")
       => \E k \in DOMAIN closes' : closes'[k].event = "call"]_vars

(***************************************************************************)
(* Properties of the pool                                                  *)
(***************************************************************************)
\* C26: once Pool.close_all was called and the close tasks it created have
\* run, every node of the pool is DISCONNECTED and its connect task is over
\* (it makes no handshake attempt any more).
C26_CloseAllClosesAll ==
    (closedAll /\ \A n \in nodes : ~pool[n].closing) =>
        \A n \in nodes :
            pool[n].status = "DISCONNECTED" /\ pool[n].loop = "none"

(***************************************************************************)
(* Properties of Node.update_player                                        *)
(***************************************************************************)
UpdateCalled == reqResult.kind # "none" /\ reqResult.call = "update_player"

IsNumber(v) == v.type \in {"int", "float", "bool"}
IsWhole(v) == v.type \in {"int", "bool"}
SuppliedFields == {f \in Fields : args[f].type # MISSING}
BothTracks == {"encoded_track", "identifier"} \subseteq SuppliedFields
InvalidField(f) ==
    /\ f \in SuppliedFields
    /\ CASE f = "position" -> ~IsNumber(args[f])
         [] f = "end_time" -> ~IsWhole(args[f]) \/ args[f].val <= 0
         [] f = "volume" -> ~IsWhole(args[f]) \/ args[f].val < 0
                            \/ args[f].val > 1000
         [] f = "paused" -> args[f].type # "bool"
         [] f = "filters" -> args[f].type \notin {None, "list[Filter]"}
         [] f = "voice_state" -> args[f].type # "dict"
         [] OTHER -> FALSE
Rejected == session_id = None \/ BothTracks \/ \E f \in Fields : InvalidField(f)
\* user_data and no_replace only qualify a track
BodyFields == SuppliedFields \ {"user_data", "no_replace"}
OnePatch(guild) ==
    /\ Len(sent) = 1
    /\ sent[1].method = "PATCH"
    /\ sent[1].guild = guild
    /\ sent[1].session = session_id

Validation ==
    /\ session_id = None => reqResult.val = "InvalidSession"
    /\ session_id # None /\ BothTracks => reqResult.val = "ValueError"
    /\ session_id # None /\ (\E f \in Fields : InvalidField(f))
          => reqResult.val = "ValueError"
    /\ Rejected => reqResult.kind = "raise" /\ sent = <<>>

Decoded == decoding.called
FieldsRead == decoding.r.fields
Short(read) == Len(read.got) < read.wanted

\* C28: from_encode goes from uri to artworkUrl, then isrc, then sourceName
\* when the version is 3 or more, and from uri straight to sourceName when
\* it is less (1 when the envelope has no version byte).
C28_ArtworkFromVersionThree ==
    Decoded =>
        /\ \A k \in 1..(Len(FieldsRead) - 1) :
              /\ FieldsRead[k] = "uri" =>
                    FieldsRead[k + 1] = IF decoding.version >= 3
                                        THEN "artworkUrl" ELSE "sourceName"
              /\ FieldsRead[k] = "artworkUrl" => FieldsRead[k + 1] = "isrc"
              /\ FieldsRead[k] = "isrc" => FieldsRead[k + 1] = "sourceName"
        /\ \A k \in DOMAIN FieldsRead :
              FieldsRead[k] \in {"artworkUrl", "isrc"} => decoding.version >= 3

\* C29: a reader operation whose _read got fewer bytes than it asked for
\* fails, so no operation returns a value cut short, and no Track is built
\* after a short read.
C29_ShortReadsFail ==
    Decoded =>
        /\ \A k \in DOMAIN decoding.r.reads :
              Short(decoding.r.reads[k]) => decoding.r.reads[k].failed
        /\ decoding.built =>
              \A k \in DOMAIN decoding.r.reads : ~Short(decoding.r.reads[k])

(***************************************************************************)
(* Properties of the queue                                                 *)
(***************************************************************************)
\* The tracks waiting in the queue, those of the playlist entries included
RECURSIVE Pending(_)
Pending(q) ==
    IF q = <<>> THEN <<>>
    ELSE (IF q[1].kind = "playlist" THEN q[1].tracks ELSE <<q[1].id>>)
         \o Pending(Tail(q))

NextLoaded == loaded'.call = "load_next" /\ listened_count' # listened_count

\* C30: load_next() without a track: under TRACK with a current track,
\* current and the queue stay; under QUEUE with a current track, the current
\* track goes to the end of the queue and the head becomes current; under
\* OFF the head becomes current and leaves the queue; and whenever a track
\* takes the place of another as current, the old one is put at the front of
\* the history.
C30_LoadNextHonoursLoop ==
    [][NextLoaded /\ loaded'.given = MissingTrack =>
        /\ loop = "TRACK" /\ current \in Tracks
              => current' = current /\ now' = now
        /\ loop = "QUEUE" /\ current \in Tracks
              => /\ current' = Head(Pending(now) \o <<current>>)
                 /\ Pending(now') = Tail(Pending(now) \o <<current>>)
        /\ loop = "OFF" /\ Pending(now) # <<>>
              => /\ current' = Head(Pending(now))
                 /\ Pending(now') = Tail(Pending(now))
        /\ current \in Tracks /\ current' \in Tracks /\ current' # current
              => history' = <<current>> \o history]_vars

\* C31: add(track=t) and add(tracks=ts), called with these keywords alone,
\* append the track or the tracks in order at the end of the queue and
\* raise nothing; a call of add leaves the entries there were, current and
\* the history as they are; ValueError is raised only when neither keyword
\* is given.
C31_AddAppends ==
    [][loaded'.call = "add" =>
        /\ ~loaded'.positional /\ loaded'.keyword # "none"
              => /\ loaded'.error = "none"
                 /\ now' = now \o Entries(loaded'.kts)
        /\ Len(now') >= Len(now) /\ SubSeq(now', 1, Len(now)) = now
        /\ current' = current /\ history' = history
        /\ loaded'.error = "ValueError" => loaded'.keyword = "none"]_vars

\* What the code does in the same cases: the keywords alone raise IndexError
\* and add nothing; with a load result or None before them they are appended
C31_AddAsCoded ==
    [][loaded'.call = "add" =>
        /\ ~loaded'.positional
              => loaded'.error = "IndexError" /\ now' = now
        /\ loaded'.positional /\ ~loaded'.search /\ loaded'.keyword # "none"
              => /\ loaded'.error = "none"
                 /\ now' = now \o Entries(loaded'.kts)
        /\ Len(now') >= Len(now) /\ SubSeq(now', 1, Len(now)) = now
        /\ current' = current /\ history' = history
        /\ loaded'.error = "ValueError" => loaded'.keyword = "none"]_vars

\* The keys of list f in the order they were appended
InOrder(f) == SelectSeq(order, LAMBDA k : \E i \in DOMAIN Bucket(f) : Bucket(f)[i] = k)
ListPopped == lastOp'.arg

\* C33: popleft() on a list that is empty (the head's later is the tail)
\* returns None, raises nothing and leaves the sentinels linked to each
\* other; on a list that is not empty it removes and returns the node that
\* was appended earliest among those in the list.
C33_PopleftOldestOrNone ==
    [][lastOp'.op = "popleft" =>
        /\ result'.kind = "return"
        /\ IF ~DLLbool(Heap, ListPopped)
           THEN /\ result'.val = None
                /\ later'[HeadOf(ListPopped)] = TailOf(ListPopped)
                /\ previous'[TailOf(ListPopped)] = HeadOf(ListPopped)
           ELSE /\ result'.val = Head(InOrder(ListPopped))
                /\ BucketIn(freq_map', later', ListPopped)
                      = Tail(InOrder(ListPopped))
      ]_vars

\* The part of it that holds: popleft() on a list that is not empty
C33_PopleftOldest ==
    [][lastOp'.op = "popleft" /\ DLLbool(Heap, ListPopped) =>
        /\ result' = [kind |-> "return", val |-> Head(InOrder(ListPopped))]
        /\ BucketIn(freq_map', later', ListPopped) = Tail(InOrder(ListPopped))
      ]_vars

\* C34: once a close() asked for by Node.close() of a node that was
\* listening has completed, the status stays DISCONNECTED and no task of the
\* transport attempts a handshake or sleeps before a retry.
C34_LocalCloseStaysClosed ==
    closedLocally =>
        /\ status = "DISCONNECTED"
        /\ \A i \in Slots : tasks[i].pc \notin {"handshake", "sleep"}

\* The step handled a text message, or the answer to the session update of
\* a 'ready'
MessageHandled ==
    \/ lastMessage'.type = "TEXT"
    \/ \E i \in Slots : /\ tasks[i].pc = "ready_request"
                        /\ tasks'[i].pc # "ready_request"

\* A task is in _listen on the transport's websocket, waiting for a
\* message or handling one
Consumed ==
    \E i \in Slots : /\ tasks'[i].pc \in {"listen", "ready_request"}
                     /\ tasks'[i].ws = websocket'

\* C35: whatever happens while a message is handled (the session update of
\* a 'ready' fails, a TrackStuckEvent or TrackExceptionEvent comes for a
\* player without a current track, an end reason or severity is unknown,
\* a stats document lacks a key), the transport is not left CONNECTED with
\* an open websocket that no task reads: the loop goes on, or the transport
\* reconnects or closes.
C35_NoOrphanedStream ==
    [][ MessageHandled /\ status' = "CONNECTED"
        /\ websocket' # NoWs /\ websocket' \notin wsClosed'
            => Consumed ]_vars

\* A call of Node.connect or Node.close on a node whose close() has completed
CalledAfterClose(call) ==
    /\ node_transport = None
    /\ reqResult'.kind # "none"
    /\ reqResult'.call = call

\* C36: after close() has completed on a node, Node.connect() starts a new
\* connection attempt (a task running Transport.connect, which sets the
\* status to CONNECTING and attempts a handshake) and Node.close() does
\* nothing; neither call raises.
C36_UsableAfterClose ==
    [][ /\ CalledAfterClose("connect") =>
              /\ reqResult'.kind = "return"
              /\ \E i \in Slots : tasks[i].pc = "idle" /\ tasks'[i].pc = "connect"
        /\ CalledAfterClose("close") =>
              /\ reqResult'.kind = "return"
              /\ UNCHANGED <<status, session_id, node_transport, players,
                             websocket, wsClosed, session>>
      ]_vars

\* A status and a session id that go together
Agree(st, sid) ==
    /\ st = "CONNECTED" => sid # None
    /\ st = "DISCONNECTED" => sid = None

\* C37: in every state of a node the status CONNECTED comes with a session
\* id and the status DISCONNECTED with none; the session id is set only by
\* the handling of a 'ready' message, to the id of the message, and cleared
\* only by a call of close() that completes.
C37_SessionFollowsStatus ==
    [][ /\ Agree(status, session_id)
        /\ Agree(status', session_id')
        /\ session_id' # session_id /\ session_id' # None =>
              /\ lastMessage'.type = "TEXT"
              /\ lastMessage'.data.op = "ready"
              /\ session_id' = lastMessage'.data.sessionId
        /\ session_id' # session_id /\ session_id' = None =>
              CloseDone(closes')
      ]_vars

\* C37, its case: a 'ready' that resumes session s2 was handled; the node
\* is CONNECTED with that session id.
C37_Witness ==
    /\ status = "CONNECTED"
    /\ lastMessage.type = "TEXT"
    /\ lastMessage.data.op = "ready"
    /\ session_id = "s2"
    /\ lastMessage.data.sessionId = "s2"
    /\ lastMessage.data.resumed

\* C38: after every get or put on a cache of capacity >= 1, each stored key
\* is once in the bucket of its recorded count and in no other bucket, no
\* bucket holds a key that is not stored, every recorded count is at least
\* 1, and the used counter is the number of stored keys.
C38_BucketsMatchCache ==
    capacity >= 1 =>
        /\ \A k \in Stored :
              /\ cache[k].frequency >= 1
              /\ \A f \in Freqs :
                    CountOf(Bucket(f), k)
                        = IF f = cache[k].frequency THEN 1 ELSE 0
        /\ \A f \in Freqs : \A i \in DOMAIN Bucket(f) : Bucket(f)[i] \in Stored
        /\ used = Cardinality(Stored)

\* C38, its case: a full cache of capacity 2 after a get, with a key of
\* count 3 and the other of count 1, another key evicted before.
C38_Witness ==
    /\ capacity = 2
    /\ lastOp.op = "get"
    /\ result.kind = "return"
    /\ used = 2
    /\ Bucket(3) # <<>>
    /\ Bucket(1) # <<>>
    /\ Bucket(2) = <<>>
    /\ freshPuts = Mixed

\* C39: after any calls of add and load_next, playlist entries in the queue
\* included, current is None or a track, never the MISSING sentinel and
\* never a playlist entry, and a load_next that returns without ending the
\* queue has taken a track, which it returns.
C39_CurrentIsTrackOrNone ==
    /\ current \in Tracks \cup {NoTrack}
    /\ loaded.call = "load_next" /\ loaded.kind = "return"
          /\ ~loaded.queue_end
          => loaded.val \in Tracks /\ loaded.val = current

\* The step is on_voice_state_update of player p with the session id the
\* player holds
SameSession(p) ==
    /\ "handler" \in DOMAIN reqResult'
    /\ reqResult'.handler = "on_voice_state_update"
    /\ reqResult'.player = p
    /\ reqResult'.given = voice_state[p].sessionId

\* The event of player p is set by the step
EventSet(p) == ~connection_event[p] /\ connection_event'[p]

\* The step sent the voice state of player p to the node
VoiceSent(p) ==
    /\ Len(sent') = 1
    /\ sent'[1].method = "PATCH"
    /\ sent'[1].guild = p
    /\ "voice" \in sent'[1].json

\* C40: the connection event of a player is set only when its voice state
\* holds sessionId, endpoint and token, whichever of the two updates came
\* first; the step that sets it has sent the voice state to the node with
\* update_player, and the node has accepted it (the event is not set when
\* the update fails); a voice-state update with the session id the player
\* already holds sends nothing.
C40_EventAfterVoiceSent ==
    [][\A p \in Active :
          /\ connection_event'[p]
                => voice_state'[p].sessionId # None /\ voice_state'[p].server
          /\ EventSet(p)
                => /\ "handler" \in DOMAIN reqResult'
                   /\ VoiceSent(p)
                   /\ reqResult'.status \in {200, 204}
          /\ SameSession(p)
                => sent' = <<>> /\ UNCHANGED <<voice_state, connection_event>>
      ]_vars

\* What the code does where the node does not accept the update: the event
\* is set whenever update_player returns, and it returns None for a status
\* other than 200, 204, 401 and 403.
C40_EventAfterReturn ==
    [][\A p \in Active :
          /\ connection_event'[p]
                => voice_state'[p].sessionId # None /\ voice_state'[p].server
          /\ EventSet(p)
                => /\ "handler" \in DOMAIN reqResult'
                   /\ VoiceSent(p)
                   /\ reqResult'.kind = "return"
          /\ "handler" \in DOMAIN reqResult'
             /\ reqResult'.kind = "raise"
                => connection_event'[p] = connection_event[p]
          /\ SameSession(p)
                => sent' = <<>> /\ UNCHANGED <<voice_state, connection_event>>
      ]_vars

====
